---- MODULE Spec2Model ----
(***************************************************************************)
(* Model of the awtools universe server: the packet codec of aw_core       *)
(* (net/packet.rs), the user packet handlers of the universe               *)
(* (packet_handler/user_handler.rs) and the presence systems               *)
(* (system/purge.rs, system/heartbeat.rs).                                 *)
(*                                                                         *)
(* Conventions.  Option<T> is a sequence of length 0 (None) or 1 (Some).   *)
(* A Rust String is a sequence of one-character strings.  A byte string is *)
(* a sequence of numbers 0..255.  A packet var is a record                 *)
(* [kind, id, val]; floats are carried as their 32-bit pattern.            *)
(***************************************************************************)
EXTENDS Integers, Sequences, FiniteSets, TLC

VARIABLES
    \* ---- packet codec (aw_core/src/net/packet.rs)
    packet,            \* the AWPacket under test
    wire,              \* Option: result of packet.serialize()
    decoded,           \* Option: result of AWPacket::deserialize(wire)
    \* ---- universe server
    client_manager,    \* set of ClientIDs the ClientManager holds
    universe,          \* set of ClientIDs that have an entity in the store
    info,              \* ClientID -> [client_type, entity]
    dead,              \* ClientID -> BOOLEAN (connection.is_dead())
    database,          \* set of CitizenQuery records
    attributes,        \* the universe attributes the database holds: id -> string
    next_session_id,   \* counter behind ClientManager::create_session_id
    panicked,          \* TRUE once a handler has aborted the process
    \* ---- presence
    now,               \* SystemTime::now() as seconds
    heartbeat,         \* ClientID -> [last_time]
    \* ---- observation of the last step
    sent,              \* packets enqueued by the last step: seq of [to, pkt]
    db_calls,          \* database calls made by the last step
    last,              \* the operation the last step ran, with its inputs
    issued,            \* session ids installed by successful logins, in order
    events,            \* effects of the last purge sweep, in order
    hb_times           \* ClientID -> set of times a Heartbeat was sent

codecVars == <<packet, wire, decoded>>
serverVars ==
    <<client_manager, universe, info, dead, database, attributes, next_session_id, panicked>>
presenceVars == <<now, heartbeat>>
obsVars == <<sent, db_calls, last, issued, events, hb_times>>
vars == <<codecVars, serverVars, presenceVars, obsVars>>

None == <<>>
Some(v) == <<v>>
IsSome(o) == Len(o) = 1
Unwrap(o) == o[1]
UnwrapOr(o, d) == IF IsSome(o) THEN o[1] ELSE d

(***************************************************************************)
(* Integer widths                                                          *)
(***************************************************************************)
U8Size == 256
U16Size == 65536
U16Max == 65535
I16Max == 32767
I32Max == 2147483647

\* A u32 (and the bit pattern of an f32) is the pair <<high half, low half>> of
\* its 16-bit halves, so that the full width is kept.
U32(n) == << n \div U16Size, n % U16Size >>
U32Max == << U16Max, U16Max >>
U32Zero == << 0, 0 >>
U32Less(a, b) == a[1] < b[1] \/ (a[1] = b[1] /\ a[2] < b[2])
\* u32::saturating_add(1), u32::saturating_sub(1)
U32SaturatingInc(a) ==
    IF a = U32Max THEN a
    ELSE IF a[2] = U16Max THEN << a[1] + 1, 0 >> ELSE << a[1], a[2] + 1 >>
U32SaturatingDec(a) ==
    IF a = U32Zero THEN a
    ELSE IF a[2] = 0 THEN << a[1] - 1, U16Max >> ELSE << a[1], a[2] - 1 >>

\* x as u16: the truncating cast
AsU16(x) == x % U16Size
\* x as i16 -> the bits written by write_i16
I16Bits(x) == x % U16Size
\* the bits read by read_i16 -> the i16 value
I16OfBits(b) == IF b > I16Max THEN b - U16Size ELSE b
\* an i32 -> its two's complement bit pattern, and back
I32Bits(x) == << (x \div U16Size) % U16Size, x % U16Size >>
I32OfBits(b) == I16OfBits(b[1]) * U16Size + b[2]

WriteU16BE(x) == << x \div U8Size, x % U8Size >>
ReadU16BE(d) == d[1] * U8Size + d[2]
WriteU32BE(x) == WriteU16BE(x[1]) \o WriteU16BE(x[2])
ReadU32BE(d) == << ReadU16BE(d), ReadU16BE(<< d[3], d[4] >>) >>

Drop(s, n) == SubSeq(s, n + 1, Len(s))
Take(s, n) == SubSeq(s, 1, n)

(***************************************************************************)
(* PacketType (packet.rs 239-398)                                          *)
(***************************************************************************)
PacketTypeUnknown == 32767

PacketTypeValues ==
    {1, 2} \cup (5..12) \cup (14..49) \cup (51..53) \cup {55, 56} \cup (59..63)
    \cup (67..70) \cup (75..86) \cup (88..94) \cup (96..107) \cup (109..121)
    \cup (123..128) \cup {130, 131} \cup (144..146) \cup (148..152)
    \cup {155, 157} \cup (159..161) \cup (163..170) \cup {183, PacketTypeUnknown}

\* an opcode conversion that keeps whatever number is on the wire
PacketTypeKeepRaw(x) == x

\* PacketType::from_i16(x).unwrap_or(PacketType::Unknown)
PacketTypeFromI16(x) == IF x \in PacketTypeValues THEN x ELSE PacketTypeUnknown

(***************************************************************************)
(* Var codec (net/packet_var.rs): wire layout  var_id u16 | type_tag u8 |  *)
(* payload                                                                 *)
(***************************************************************************)
VarKinds == {"Byte", "Int", "Uint", "Float", "String", "Data"}

TypeTag(kind) ==
    CASE kind = "Byte" -> 1
      [] kind = "Int" -> 2
      [] kind = "Float" -> 3
      [] kind = "String" -> 4
      [] kind = "Data" -> 5
      [] kind = "Uint" -> 6

KindOfTag(tag) ==
    CASE tag = 1 -> Some("Byte")
      [] tag = 2 -> Some("Int")
      [] tag = 3 -> Some("Float")
      [] tag = 4 -> Some("String")
      [] tag = 5 -> Some("Data")
      [] tag = 6 -> Some("Uint")
      [] OTHER -> None

Var(kind, id, val) == [kind |-> kind, id |-> id, val |-> val]

\* AWPacketVar::serialize_len
VarSerializeLen(v) ==
    3 + (CASE v.kind = "Byte" -> 1
           [] v.kind \in {"Int", "Uint", "Float"} -> 4
           [] v.kind \in {"String", "Data"} -> 2 + Len(v.val))

VarPayload(v) ==
    CASE v.kind = "Byte" -> << v.val >>
      [] v.kind = "Int" -> WriteU32BE(I32Bits(v.val))
      [] v.kind \in {"Uint", "Float"} -> WriteU32BE(v.val)
      [] v.kind \in {"String", "Data"} -> WriteU16BE(Len(v.val)) \o v.val

\* AWPacketVar::serialize
VarSerialize(v) ==
    IF v.kind \in {"String", "Data"} /\ Len(v.val) > U16Max
    THEN [ok |-> FALSE, err |-> "TooLarge"]
    ELSE [ok |-> TRUE, bytes |-> WriteU16BE(v.id) \o << TypeTag(v.kind) >> \o VarPayload(v)]

\* AWPacketVar::deserialize
VarDeserialize(data) ==
    IF Len(data) < 3 THEN [ok |-> FALSE, err |-> "ShortRead"]
    ELSE
    LET id == ReadU16BE(data)
        kind == KindOfTag(data[3])
        rest == Drop(data, 3)
    IN  IF ~IsSome(kind) THEN [ok |-> FALSE, err |-> "UnknownType"]
        ELSE
        LET k == Unwrap(kind) IN
        CASE k = "Byte" ->
               IF Len(rest) < 1 THEN [ok |-> FALSE, err |-> "ShortRead"]
               ELSE [ok |-> TRUE, var |-> Var(k, id, rest[1]), consumed |-> 4]
          [] k \in {"Int", "Uint", "Float"} ->
               IF Len(rest) < 4 THEN [ok |-> FALSE, err |-> "ShortRead"]
               ELSE [ok |-> TRUE,
                     var |-> Var(k, id, IF k = "Int" THEN I32OfBits(ReadU32BE(rest))
                                                     ELSE ReadU32BE(rest)),
                     consumed |-> 7]
          [] k \in {"String", "Data"} ->
               IF Len(rest) < 2 THEN [ok |-> FALSE, err |-> "ShortRead"]
               ELSE LET n == ReadU16BE(rest) IN
                    IF Len(rest) < 2 + n THEN [ok |-> FALSE, err |-> "ShortRead"]
                    ELSE [ok |-> TRUE, var |-> Var(k, id, SubSeq(rest, 3, 2 + n)),
                          consumed |-> 5 + n]

(***************************************************************************)
(* AWPacket (packet.rs 8-168) and TagHeader (packet.rs 170-237)            *)
(***************************************************************************)
AWPacket(opcode, header_0, header_1, vs) ==
    [vars |-> vs, opcode |-> opcode, header_0 |-> header_0, header_1 |-> header_1]

\* AWPacket::new
NewPacket(opcode) == AWPacket(opcode, 0, 0, << >>)

\* AWPacket::add_var
AddVar(p, v) == [p EXCEPT !.vars = Append(@, v)]

RECURSIVE AddVars(_, _)
AddVars(p, vs) == IF vs = << >> THEN p ELSE AddVars(AddVar(p, Head(vs)), Tail(vs))

\* the typed accessors: the value of the first var of that kind and id
RECURSIVE GetTyped(_, _, _)
GetTyped(vs, kind, var_id) ==
    IF vs = << >> THEN None
    ELSE IF Head(vs).kind = kind /\ Head(vs).id = var_id THEN Some(Head(vs).val)
    ELSE GetTyped(Tail(vs), kind, var_id)

\* AWPacket::get_var: the first var with that id, of whatever kind
RECURSIVE GetVar(_, _)
GetVar(vs, var_id) ==
    IF vs = << >> THEN None
    ELSE IF Head(vs).id = var_id THEN Some(Head(vs)) ELSE GetVar(Tail(vs), var_id)

get_var(p, var_id) == GetVar(p.vars, var_id)

\* an accessor that walks the vars from the last to the first
get_byte_last(p, var_id) ==
    GetTyped([i \in 1..Len(p.vars) |-> p.vars[Len(p.vars) + 1 - i]], "Byte", var_id)

get_byte(p, var_id) == GetTyped(p.vars, "Byte", var_id)
get_int(p, var_id) == GetTyped(p.vars, "Int", var_id)
get_uint(p, var_id) == GetTyped(p.vars, "Uint", var_id)
get_float(p, var_id) == GetTyped(p.vars, "Float", var_id)
get_string(p, var_id) == GetTyped(p.vars, "String", var_id)
get_data(p, var_id) == GetTyped(p.vars, "Data", var_id)

HasVar(p, var_id) == \E i \in 1..Len(p.vars) : p.vars[i].id = var_id

TagHeaderLength == 10

RECURSIVE SumVarLen(_)
SumVarLen(vs) == IF vs = << >> THEN 0 ELSE VarSerializeLen(Head(vs)) + SumVarLen(Tail(vs))

\* a length that leaves the header out
serialize_len_of_vars(p) == SumVarLen(p.vars)

\* AWPacket::serialize_len
serialize_len(p) == TagHeaderLength + SumVarLen(p.vars)

TagHeader(serialized_length, header_0, opcode, header_1, var_count) ==
    [serialized_length |-> serialized_length, header_0 |-> header_0, opcode |-> opcode,
     header_1 |-> header_1, var_count |-> var_count]

\* a header writer that puts header_1 where header_0 belongs
TagHeaderSerializeSwapped(h) ==
    WriteU16BE(h.serialized_length) \o WriteU16BE(h.header_1) \o WriteU16BE(I16Bits(h.opcode))
    \o WriteU16BE(h.header_0) \o WriteU16BE(h.var_count)

\* TagHeader::serialize
TagHeaderSerialize(h) ==
    WriteU16BE(h.serialized_length) \o WriteU16BE(h.header_0) \o WriteU16BE(I16Bits(h.opcode))
    \o WriteU16BE(h.header_1) \o WriteU16BE(h.var_count)

\* TagHeader::deserialize: the assert aborts on a short input
TagHeaderDeserialize(data) ==
    IF Len(data) < TagHeaderLength THEN [ok |-> FALSE, panic |-> TRUE, err |-> "assert"]
    ELSE [ok |-> TRUE,
          header |-> TagHeader(ReadU16BE(data), ReadU16BE(Drop(data, 2)),
                               I16OfBits(ReadU16BE(Drop(data, 4))), ReadU16BE(Drop(data, 6)),
                               ReadU16BE(Drop(data, 8))),
          consumed |-> TagHeaderLength]

RECURSIVE SerializeVars(_)
SerializeVars(vs) ==
    IF vs = << >> THEN [ok |-> TRUE, bytes |-> << >>]
    ELSE LET h == VarSerialize(Head(vs)) IN
         IF ~h.ok THEN h
         ELSE LET t == SerializeVars(Tail(vs)) IN
              IF ~t.ok THEN t ELSE [ok |-> TRUE, bytes |-> h.bytes \o t.bytes]

\* a serialize that already refuses a packet of exactly u16::MAX bytes
serialize_refusing_max(p) ==
    LET len == serialize_len(p) IN
    IF len >= U16Max THEN [ok |-> FALSE, err |-> "TooLarge"]
    ELSE LET header == TagHeader(AsU16(len), p.header_0, p.opcode, p.header_1,
                                 AsU16(Len(p.vars)))
             body == SerializeVars(p.vars)
         IN  IF ~body.ok THEN body
             ELSE [ok |-> TRUE, bytes |-> TagHeaderSerialize(header) \o body.bytes]

\* AWPacket::serialize
serialize(p) ==
    LET len == serialize_len(p) IN
    IF len > U16Max THEN [ok |-> FALSE, err |-> "TooLarge"]
    ELSE LET header == TagHeader(AsU16(len), p.header_0, p.opcode, p.header_1,
                                 AsU16(Len(p.vars)))
             body == SerializeVars(p.vars)
         IN  IF ~body.ok THEN body
             ELSE [ok |-> TRUE, bytes |-> TagHeaderSerialize(header) \o body.bytes]

\* the loop of AWPacket::deserialize reading var_count vars
RECURSIVE DeserializeVars(_, _, _, _)
DeserializeVars(data, n, acc, total) ==
    IF n = 0 THEN [ok |-> TRUE, vars |-> acc, consumed |-> total]
    ELSE LET r == VarDeserialize(data) IN
         IF ~r.ok THEN [ok |-> FALSE, panic |-> FALSE, err |-> r.err]
         ELSE DeserializeVars(Drop(data, r.consumed), n - 1, Append(acc, r.var),
                              total + r.consumed)

\* a deserialize that does not compare the consumed bytes with the header
deserialize_any_length(data) ==
    LET h == TagHeaderDeserialize(data) IN
    IF ~h.ok THEN h
    ELSE LET r == DeserializeVars(Drop(data, h.consumed), h.header.var_count, << >>,
                                  h.consumed)
         IN  IF ~r.ok THEN r
             ELSE [ok |-> TRUE,
                   packet |-> AWPacket(PacketTypeFromI16(h.header.opcode), h.header.header_0,
                                       h.header.header_1, r.vars),
                   consumed |-> r.consumed]

\* AWPacket::deserialize
deserialize(data) ==
    LET h == TagHeaderDeserialize(data) IN
    IF ~h.ok THEN h
    ELSE LET r == DeserializeVars(Drop(data, h.consumed), h.header.var_count, << >>,
                                  h.consumed)
         IN  IF ~r.ok THEN r
             ELSE IF r.consumed # h.header.serialized_length
             THEN [ok |-> FALSE, panic |-> FALSE, err |-> "LengthMismatch"]
             ELSE [ok |-> TRUE,
                   packet |-> AWPacket(PacketTypeFromI16(h.header.opcode), h.header.header_0,
                                       h.header.header_1, r.vars),
                   consumed |-> r.consumed]

(***************************************************************************)
(* Values of the variables a specification does not use                    *)
(***************************************************************************)
ClientIds == {"c1", "c2", "c3"}

NoEntity == [kind |-> "None"]
FreshInfo == [client_type |-> None, entity |-> NoEntity]
NoOp == [op |-> "none"]

\* the universe attributes a packet can set, and a store with none of them set
AttributeIds == {"AttributeAllowTourists", "AttributeWorldStart"}
NoAttributes == [a \in AttributeIds |-> << >>]

IdleCodec ==
    /\ packet = NewPacket(PacketTypeUnknown)
    /\ wire = None
    /\ decoded = None

IdleServer ==
    /\ client_manager = {}
    /\ universe = {}
    /\ info = [c \in ClientIds |-> FreshInfo]
    /\ dead = [c \in ClientIds |-> FALSE]
    /\ database = {}
    /\ attributes = NoAttributes
    /\ next_session_id = 1
    /\ panicked = FALSE

IdlePresence ==
    /\ now = 0
    /\ heartbeat = [c \in ClientIds |-> [last_time |-> 0]]

IdleObs ==
    /\ sent = << >>
    /\ db_calls = << >>
    /\ last = NoOp
    /\ issued = << >>
    /\ events = << >>
    /\ hb_times = [c \in ClientIds |-> {}]

(***************************************************************************)
(* Universe server: citizens, sessions and the collaborators of the        *)
(* handlers (database, client manager, license generator)                  *)
(***************************************************************************)
Quote == "\""

Ok(v) == [ok |-> TRUE, panic |-> FALSE, val |-> v]
Err(e) == [ok |-> FALSE, panic |-> FALSE, err |-> e]
Panic == [ok |-> FALSE, panic |-> TRUE, err |-> "panic"]

\* A stored citizen: the CitizenQuery fields.
Citizen(id, name, password, priv_pass, enabled) ==
    [id |-> id, changed |-> 0, name |-> name, password |-> password,
     email |-> <<"e", "@">>, priv_pass |-> priv_pass, comment |-> <<"k">>, url |-> <<"u">>,
     immigration |-> U32(10), expiration |-> U32(0), last_login |-> U32(20),
     last_address |-> U32(30), total_time |-> U32(40), bot_limit |-> U32(3),
     beta |-> U32(0), cav_enabled |-> U32(0), cav_template |-> U32(0),
     enabled |-> U32(enabled), privacy |-> U32(0), trial |-> U32(0)]

\* Database::citizen_by_number: the citizen stored under exactly that id
citizen_by_number(db, id) ==
    LET m == {c \in db : c.id = id} IN
    IF m = {} THEN Err("NotFound") ELSE Ok(CHOOSE c \in m : TRUE)

\* Database::citizen_by_name
citizen_by_name(db, name) ==
    LET m == {c \in db : c.name = name} IN
    IF m = {} THEN Err("NotFound") ELSE Ok(CHOOSE c \in m : TRUE)

\* Database::citizen_change: rewrite the row of that id
citizen_change(db, q) == {IF c.id = q.id THEN q ELSE c : c \in db}

IsPlayer(inf) == inf.entity.kind = "Player"

\* Client::has_admin_permissions
has_admin_permissions(inf) ==
    /\ IsPlayer(inf)
    /\ \/ inf.entity.citizen_id = Some(U32(1))
       \/ inf.entity.privilege_id = Some(U32(1))

\* ClientType::from_i32
ClientTypeFromI32(n) ==
    CASE n = 1 -> Some("UnspecifiedHuman")
      [] n = 2 -> Some("Bot")
      [] n = 3 -> Some("Citizen")
      [] n = 4 -> Some("Tourist")
      [] OTHER -> None

\* ClientManager::create_session_id: the value of a counter, which it advances
create_session_id(sid) == [id |-> sid, next |-> sid + 1]

\* ClientManager::check_tourist: a quoted, non-empty name that no player holds
check_tourist(cm, inf, username) ==
    IF Len(username) < 3 \/ username[Len(username)] # Quote
    THEN Err("NoSuchCitizen")
    ELSE IF \E o \in cm : /\ IsPlayer(inf[o])
                          /\ inf[o].entity.username
                               \in {username, SubSeq(username, 2, Len(username) - 1)}
    THEN Err("NameAlreadyUsed")
    ELSE Ok(None)

\* ClientManager::check_citizen: name and password must match an enabled
\* citizen; a privilege id must name a citizen whose privilege password matches
check_citizen(db, username, password, privilege_id, privilege_password) ==
    IF ~IsSome(username) \/ ~IsSome(password) THEN Err("NoSuchCitizen")
    ELSE LET found == citizen_by_name(db, Unwrap(username)) IN
         IF ~found.ok THEN Err("NoSuchCitizen")
         ELSE IF found.val.password # Unwrap(password) THEN Err("NoSuchCitizen")
         ELSE IF found.val.enabled = U32Zero THEN Err("Unauthorized")
         ELSE IF ~IsSome(privilege_id) THEN Ok(found.val)
         ELSE LET priv == citizen_by_number(db, Unwrap(privilege_id)) IN
              IF \/ ~priv.ok
                 \/ ~IsSome(privilege_password)
                 \/ priv.val.priv_pass # Unwrap(privilege_password)
              THEN Err("Unauthorized")
              ELSE Ok(found.val)

\* LicenseGenerator::create_license_data
create_license_data(build) == << "license", build >>

(***************************************************************************)
(* login (user_handler.rs 18-183)                                          *)
(***************************************************************************)
\* LoginCredentials::from_packet: the unwrap aborts when UserType is absent
LoginCredentialsFromPacket(p) ==
    LET ut == get_int(p, "UserType") IN
    IF ~IsSome(ut) THEN Panic
    ELSE Ok([user_type |-> ClientTypeFromI32(Unwrap(ut)),
             username |-> get_string(p, "LoginUsername"),
             password |-> get_string(p, "Password"),
             email |-> get_string(p, "Email"),
             privilege_id |-> get_uint(p, "PrivilegeUserID"),
             privilege_password |-> get_string(p, "PrivilegePassword")])

\* validate_human_login: Ok(None) for a tourist, Ok(Some(citizen)) for a citizen
validate_human_login(cm, inf, db, credentials) ==
    IF ~IsSome(credentials.username) THEN Err("NoSuchCitizen")
    ELSE LET username == Unwrap(credentials.username) IN
         IF Len(username) > 0 /\ username[1] = Quote
         THEN check_tourist(cm, inf, username)
         ELSE LET cit == check_citizen(db, credentials.username, credentials.password,
                                       credentials.privilege_id,
                                       credentials.privilege_password)
              IN  IF cit.ok THEN Ok(Some(cit.val)) ELSE cit

\* validate_login
validate_login(cm, inf, db, credentials) ==
    IF credentials.user_type = Some("Bot") THEN Panic
    ELSE IF credentials.user_type = Some("UnspecifiedHuman")
    THEN validate_human_login(cm, inf, db, credentials)
    ELSE Err("NoSuchCitizen")

PlayerInfo(build, session_id, citizen_id, privilege_id, username) ==
    [kind |-> "Player", build |-> build, session_id |-> session_id,
     citizen_id |-> citizen_id, privilege_id |-> privilege_id, username |-> username]

\* a promotion that installs the player without drawing a new session id
PromoteNoAlloc(user, credentials, build, sid) ==
    IF IsSome(user)
    THEN [client_type |-> Some("Citizen"),
          entity |-> PlayerInfo(build, 0, Some(Unwrap(user).id),
                                credentials.privilege_id, Unwrap(user).name)]
    ELSE [client_type |-> Some("Tourist"),
          entity |-> PlayerInfo(build, 0, None, None,
                                UnwrapOr(credentials.username, << >>))]

\* a promotion that marks every player a citizen
PromoteAllCitizens(user, credentials, build, sid) ==
    [client_type |-> Some("Citizen"),
     entity |-> IF IsSome(user)
                THEN PlayerInfo(build, create_session_id(sid).id, Some(Unwrap(user).id),
                                credentials.privilege_id, Unwrap(user).name)
                ELSE PlayerInfo(build, create_session_id(sid).id, None, None,
                                UnwrapOr(credentials.username, << >>))]

\* login, lines 63-100: the session record installed by a successful login
Promote(user, credentials, build, sid) ==
    IF IsSome(user)
    THEN [client_type |-> Some("Citizen"),
          entity |-> PlayerInfo(build, create_session_id(sid).id, Some(Unwrap(user).id),
                                credentials.privilege_id, Unwrap(user).name)]
    ELSE [client_type |-> Some("Tourist"),
          entity |-> PlayerInfo(build, create_session_id(sid).id, None, None,
                                UnwrapOr(credentials.username, << >>))]

\* login, lines 79-83: the citizen vars of the response
LoginCitizenVars(user) ==
    IF IsSome(user)
    THEN LET citizen == Unwrap(user) IN
         << Var("Uint", "BetaUser", citizen.beta), Var("Uint", "TrialUser", citizen.trial),
            Var("Uint", "CitizenNumber", citizen.id),
            Var("Uint", "CitizenPrivacy", citizen.privacy),
            Var("Uint", "CAVEnabled", citizen.cav_enabled) >>
    ELSE << >>

\* session_id as i32
SessionIdAsI32(x) == IF x > I32Max THEN x - I32Max - I32Max - 2 ELSE x

\* a response tail that announces a session whatever the entity is
LoginSessionVarsAlways(inf) ==
    << Var("String", "CitizenName", << >>), Var("Int", "SessionID", 0) >>

\* a response tail that never announces the session
LoginSessionVarsNever(inf) == << >>

\* login, lines 115-121: name and session id of the entity the session holds
LoginSessionVars(inf) ==
    IF IsPlayer(inf)
    THEN << Var("String", "CitizenName", inf.entity.username),
            Var("Int", "SessionID", SessionIdAsI32(inf.entity.session_id)) >>
    ELSE << >>

\* login: the outcome of one Login packet p on client c
login(c, p, cm, inf, db, sid) ==
    LET browser_build == get_int(p, "BrowserBuild")
        creds == LoginCredentialsFromPacket(p)
    IN  IF creds.panic THEN [panic |-> TRUE]
        ELSE
        LET credentials == creds.val
            v == validate_login(cm, inf, db, credentials)
        IN  IF v.panic THEN [panic |-> TRUE]
            ELSE
            LET new_info == IF v.ok
                            THEN Promote(v.val, credentials, UnwrapOr(browser_build, 0), sid)
                            ELSE inf[c]
                rc == IF v.ok THEN "Success" ELSE v.err
                response ==
                    AddVars(NewPacket("Login"),
                            (IF v.ok THEN LoginCitizenVars(v.val) ELSE << >>)
                            \o LoginSessionVars(new_info)
                            \o << Var("Data", "UniverseLicense",
                                      create_license_data(UnwrapOr(browser_build, 0))),
                                  Var("Int", "ReasonCode", rc) >>)
            IN  [panic |-> FALSE, success |-> v.ok, info |-> new_info,
                 sent |-> << [to |-> c, pkt |-> response] >>]

(***************************************************************************)
(* Directory queries (user_handler.rs 311-700)                             *)
(***************************************************************************)
\* x as u8 of a u32
U32AsU8(x) == x[2] % U8Size

DbCall(name, arg) == [call |-> name, arg |-> arg]

\* a projection that gives the comment and the address to the citizen itself
citizen_info_vars_leaky(citizen, self_vars, admin_vars) ==
    << Var("Uint", "CitizenNumber", citizen.id),
       Var("String", "CitizenName", citizen.name),
       Var("String", "CitizenURL", citizen.url),
       Var("Byte", "TrialUser", U32AsU8(citizen.trial)),
       Var("Byte", "CAVEnabled", U32AsU8(citizen.cav_enabled)) >>
    \o (IF citizen.cav_enabled # U32Zero
        THEN << Var("Uint", "CAVTemplate", citizen.cav_template) >>
        ELSE << Var("Int", "CAVTemplate", 0) >>)
    \o (IF self_vars \/ admin_vars
        THEN << Var("Uint", "CitizenImmigration", citizen.immigration),
                Var("Uint", "CitizenExpiration", citizen.expiration),
                Var("Uint", "CitizenLastLogin", citizen.last_login),
                Var("Uint", "CitizenTotalTime", citizen.total_time),
                Var("Uint", "CitizenBotLimit", citizen.bot_limit),
                Var("Byte", "BetaUser", U32AsU8(citizen.beta)),
                Var("Byte", "CitizenEnabled", U32AsU8(citizen.enabled)),
                Var("Uint", "CitizenPrivacy", citizen.privacy),
                Var("String", "CitizenPassword", citizen.password),
                Var("String", "CitizenEmail", citizen.email),
                Var("String", "CitizenPrivilegePassword", citizen.priv_pass),
                Var("Uint", "CitizenImmigration", citizen.immigration) >>
             \o (IF self_vars \/ admin_vars
                 THEN << Var("String", "CitizenComment", citizen.comment),
                         Var("Uint", "IdentifyUserIP", citizen.last_address) >>
                 ELSE << >>)
        ELSE << >>)

\* citizen_info_vars
citizen_info_vars(citizen, self_vars, admin_vars) ==
    << Var("Uint", "CitizenNumber", citizen.id),
       Var("String", "CitizenName", citizen.name),
       Var("String", "CitizenURL", citizen.url),
       Var("Byte", "TrialUser", U32AsU8(citizen.trial)),
       Var("Byte", "CAVEnabled", U32AsU8(citizen.cav_enabled)) >>
    \o (IF citizen.cav_enabled # U32Zero
        THEN << Var("Uint", "CAVTemplate", citizen.cav_template) >>
        ELSE << Var("Int", "CAVTemplate", 0) >>)
    \o (IF self_vars \/ admin_vars
        THEN << Var("Uint", "CitizenImmigration", citizen.immigration),
                Var("Uint", "CitizenExpiration", citizen.expiration),
                Var("Uint", "CitizenLastLogin", citizen.last_login),
                Var("Uint", "CitizenTotalTime", citizen.total_time),
                Var("Uint", "CitizenBotLimit", citizen.bot_limit),
                Var("Byte", "BetaUser", U32AsU8(citizen.beta)),
                Var("Byte", "CitizenEnabled", U32AsU8(citizen.enabled)),
                Var("Uint", "CitizenPrivacy", citizen.privacy),
                Var("String", "CitizenPassword", citizen.password),
                Var("String", "CitizenEmail", citizen.email),
                Var("String", "CitizenPrivilegePassword", citizen.priv_pass),
                Var("Uint", "CitizenImmigration", citizen.immigration) >>
             \o (IF admin_vars
                 THEN << Var("String", "CitizenComment", citizen.comment),
                         Var("Uint", "IdentifyUserIP", citizen.last_address) >>
                 ELSE << >>)
        ELSE << >>)

\* the tail shared by the four lookups: the reply for a database result
CitizenInfoReply(inf, found) ==
    IF found.ok
    THEN AddVars(NewPacket("CitizenInfo"),
                 citizen_info_vars(found.val, Some(found.val.id) = inf.entity.citizen_id,
                                   has_admin_permissions(inf))
                 \o << Var("Int", "ReasonCode", "Success") >>)
    ELSE AddVar(NewPacket("CitizenInfo"), Var("Int", "ReasonCode", "NoSuchCitizen"))

CitizenInfoRefusal(rc) == AddVar(NewPacket("CitizenInfo"), Var("Int", "ReasonCode", rc))

\* a citizen_next that asks only for a player, not for an admin
citizen_next_open(inf, p, db) ==
    IF IsPlayer(inf)
    THEN LET id == U32SaturatingInc(UnwrapOr(get_uint(p, "CitizenNumber"), U32Zero)) IN
         [response |-> CitizenInfoReply(inf, citizen_by_number(db, id)),
          db_calls |-> << DbCall("citizen_by_number", id) >>]
    ELSE [response |-> CitizenInfoRefusal("Unauthorized"), db_calls |-> << >>]

\* citizen_next
citizen_next(inf, p, db) ==
    IF ~has_admin_permissions(inf)
    THEN [response |-> CitizenInfoRefusal("Unauthorized"), db_calls |-> << >>]
    ELSE IF IsPlayer(inf)
    THEN LET id == U32SaturatingInc(UnwrapOr(get_uint(p, "CitizenNumber"), U32Zero)) IN
         [response |-> CitizenInfoReply(inf, citizen_by_number(db, id)),
          db_calls |-> << DbCall("citizen_by_number", id) >>]
    ELSE [response |-> CitizenInfoRefusal("Success"), db_calls |-> << >>]

\* citizen_prev
citizen_prev(inf, p, db) ==
    IF ~has_admin_permissions(inf)
    THEN [response |-> CitizenInfoRefusal("Unauthorized"), db_calls |-> << >>]
    ELSE IF IsPlayer(inf)
    THEN LET id == U32SaturatingDec(UnwrapOr(get_uint(p, "CitizenNumber"), U32Zero)) IN
         [response |-> CitizenInfoReply(inf, citizen_by_number(db, id)),
          db_calls |-> << DbCall("citizen_by_number", id) >>]
    ELSE [response |-> CitizenInfoRefusal("Success"), db_calls |-> << >>]

\* citizen_lookup_by_name
citizen_lookup_by_name(inf, p, db) ==
    IF ~has_admin_permissions(inf)
    THEN [response |-> CitizenInfoRefusal("Unauthorized"), db_calls |-> << >>]
    ELSE IF IsPlayer(inf)
    THEN LET name == get_string(p, "CitizenName") IN
         IF IsSome(name)
         THEN [response |-> CitizenInfoReply(inf, citizen_by_name(db, Unwrap(name))),
               db_calls |-> << DbCall("citizen_by_name", Unwrap(name)) >>]
         ELSE [response |-> CitizenInfoRefusal("NoSuchCitizen"), db_calls |-> << >>]
    ELSE [response |-> CitizenInfoRefusal("Success"), db_calls |-> << >>]

\* citizen_lookup_by_number
citizen_lookup_by_number(inf, p, db) ==
    IF ~has_admin_permissions(inf)
    THEN [response |-> CitizenInfoRefusal("Unauthorized"), db_calls |-> << >>]
    ELSE IF IsPlayer(inf)
    THEN LET id == get_uint(p, "CitizenNumber") IN
         IF IsSome(id)
         THEN [response |-> CitizenInfoReply(inf, citizen_by_number(db, Unwrap(id))),
               db_calls |-> << DbCall("citizen_by_number", Unwrap(id)) >>]
         ELSE [response |-> CitizenInfoRefusal("NoSuchCitizen"), db_calls |-> << >>]
    ELSE [response |-> CitizenInfoRefusal("Success"), db_calls |-> << >>]

\* the vars citizen_from_packet requires, in the order it reads them
CitizenPacketFields ==
    << <<"String", "CitizenName">>, <<"Uint", "CitizenNumber">>, <<"String", "CitizenEmail">>,
       <<"String", "CitizenPrivilegePassword">>, <<"Uint", "CitizenExpiration">>,
       <<"Uint", "CitizenBotLimit">>, <<"Uint", "BetaUser">>, <<"Uint", "CitizenEnabled">>,
       <<"String", "CitizenComment">>, <<"String", "CitizenPassword">>,
       <<"String", "CitizenURL">>, <<"Uint", "CAVTemplate">>, <<"Uint", "CAVEnabled">>,
       <<"Uint", "CitizenPrivacy">>, <<"Uint", "TrialUser">> >>

\* citizen_from_packet
citizen_from_packet(p) ==
    IF \E i \in 1..Len(CitizenPacketFields) :
         ~IsSome(GetTyped(p.vars, CitizenPacketFields[i][1], CitizenPacketFields[i][2]))
    THEN Err("missing")
    ELSE Ok([id |-> Unwrap(get_uint(p, "CitizenNumber")), changed |-> 0,
             name |-> Unwrap(get_string(p, "CitizenName")),
             password |-> Unwrap(get_string(p, "CitizenPassword")),
             email |-> Unwrap(get_string(p, "CitizenEmail")),
             priv_pass |-> Unwrap(get_string(p, "CitizenPrivilegePassword")),
             comment |-> Unwrap(get_string(p, "CitizenComment")),
             url |-> Unwrap(get_string(p, "CitizenURL")),
             immigration |-> U32Zero,
             expiration |-> Unwrap(get_uint(p, "CitizenExpiration")),
             last_login |-> U32Zero, last_address |-> U32Zero, total_time |-> U32Zero,
             bot_limit |-> Unwrap(get_uint(p, "CitizenBotLimit")),
             beta |-> Unwrap(get_uint(p, "BetaUser")),
             cav_enabled |-> Unwrap(get_uint(p, "CAVEnabled")),
             cav_template |-> Unwrap(get_uint(p, "CAVTemplate")),
             enabled |-> Unwrap(get_uint(p, "CitizenEnabled")),
             privacy |-> Unwrap(get_uint(p, "CitizenPrivacy")),
             trial |-> Unwrap(get_uint(p, "TrialUser"))])

\* a record that takes every field from the packet, gated or not
CitizenQueryUngated(original, changed, admin) ==
    [changed EXCEPT !.id = original.id, !.changed = 0,
                    !.immigration = original.immigration,
                    !.last_login = original.last_login,
                    !.last_address = original.last_address,
                    !.total_time = original.total_time]

\* modify_citizen: the record it writes
CitizenQuery(original, changed, admin) ==
    [id |-> original.id, changed |-> 0, name |-> changed.name,
     password |-> changed.password, email |-> changed.email,
     priv_pass |-> changed.priv_pass,
     comment |-> IF admin THEN changed.comment ELSE original.comment,
     url |-> changed.url, immigration |-> original.immigration,
     expiration |-> IF admin THEN changed.expiration ELSE original.expiration,
     last_login |-> original.last_login, last_address |-> original.last_address,
     total_time |-> original.total_time,
     bot_limit |-> IF admin THEN changed.bot_limit ELSE original.bot_limit,
     beta |-> IF admin THEN changed.beta ELSE original.beta,
     cav_enabled |-> IF admin THEN changed.cav_enabled ELSE original.cav_enabled,
     cav_template |-> changed.cav_template,
     enabled |-> IF admin THEN changed.enabled ELSE original.enabled,
     privacy |-> changed.privacy,
     trial |-> IF admin THEN changed.trial ELSE original.trial]

\* a modify_citizen that writes without looking for the holder of the name
modify_citizen_any_name(original, changed, db, admin, db_ok) ==
    LET cit_query == CitizenQuery(original, changed, admin)
        calls == << DbCall("citizen_by_name", changed.name),
                    DbCall("citizen_change", cit_query.id) >>
    IN  IF db_ok
        THEN [ok |-> TRUE, db |-> citizen_change(db, cit_query), db_calls |-> calls]
        ELSE [ok |-> FALSE, err |-> "UnableToChangeCitizen", db |-> db, db_calls |-> calls]

\* modify_citizen; db_ok is whether the database accepts the write
modify_citizen(original, changed, db, admin, db_ok) ==
    LET matching_cit == citizen_by_name(db, changed.name)
        by_name == << DbCall("citizen_by_name", changed.name) >>
    IN  IF matching_cit.ok /\ matching_cit.val.id # original.id
        THEN [ok |-> FALSE, err |-> "NameAlreadyUsed", db |-> db, db_calls |-> by_name]
        ELSE
        LET cit_query == CitizenQuery(original, changed, admin)
            calls == by_name \o << DbCall("citizen_change", cit_query.id) >>
        IN  IF db_ok
            THEN [ok |-> TRUE, db |-> citizen_change(db, cit_query), db_calls |-> calls]
            ELSE [ok |-> FALSE, err |-> "UnableToChangeCitizen", db |-> db,
                  db_calls |-> calls]

CitizenChangeResult(rc) ==
    AddVar(NewPacket("CitizenChangeResult"), Var("Int", "ReasonCode", rc))

\* citizen_change: no reply at all when a required var is absent
citizen_change_handler(inf, p, db, db_ok) ==
    LET changed_info == citizen_from_packet(p) IN
    IF ~changed_info.ok THEN [sent |-> << >>, db |-> db, db_calls |-> << >>]
    ELSE
    LET changed == changed_info.val IN
    IF ~IsPlayer(inf)
    THEN [sent |-> << CitizenChangeResult("Success") >>, db |-> db, db_calls |-> << >>]
    ELSE IF Some(changed.id) # inf.entity.citizen_id /\ ~has_admin_permissions(inf)
    THEN [sent |-> << CitizenChangeResult("Unauthorized") >>, db |-> db, db_calls |-> << >>]
    ELSE
    LET original_info == citizen_by_number(db, changed.id)
        by_number == << DbCall("citizen_by_number", changed.id) >>
    IN  IF ~original_info.ok
        THEN [sent |-> << CitizenChangeResult("NoSuchCitizen") >>, db |-> db,
              db_calls |-> by_number]
        ELSE LET m == modify_citizen(original_info.val, changed, db,
                                     has_admin_permissions(inf), db_ok)
             IN  [sent |-> << CitizenChangeResult(IF m.ok THEN "Success" ELSE m.err) >>,
                  db |-> m.db, db_calls |-> by_number \o m.db_calls]

(***************************************************************************)
(* Packet codec: serialize a packet, then deserialize the bytes            *)
(***************************************************************************)
MaxVars == 2

SeqsUpTo(S, n) == UNION {[1..k -> S] : k \in 0..n}

CodecSampleVars ==
    { Var("Byte", 1, 0), Var("Byte", 258, 255),
      Var("Int", 1, -1), Var("Int", 2, I32Max),
      Var("Uint", 1, U32Max),
      Var("Float", 3, U32(1065353216)),
      Var("String", 1, << >>), Var("String", 258, <<72, 105>>),
      Var("Data", 1, << >>), Var("Data", U16Max, <<0, 255>>) }

CodecSampleOpcodes == {5, 47, 183, PacketTypeUnknown}
CodecSampleHeader0 == {0, 258, U16Max}
CodecSampleHeader1 == {0, U16Max}

CodecSamplePackets ==
    { AddVars([NewPacket(op) EXCEPT !.header_0 = h0, !.header_1 = h1], vs) :
        op \in CodecSampleOpcodes, h0 \in CodecSampleHeader0, h1 \in CodecSampleHeader1,
        vs \in SeqsUpTo(CodecSampleVars, MaxVars) }

InitCodec ==
    /\ packet \in CodecSamplePackets
    /\ wire = None
    /\ decoded = None
    /\ IdleServer /\ IdlePresence /\ IdleObs

Serialize ==
    /\ wire = None
    /\ wire' = Some(serialize(packet))
    /\ UNCHANGED <<packet, decoded, serverVars, presenceVars, obsVars>>

Deserialize ==
    /\ IsSome(wire) /\ Unwrap(wire).ok
    /\ decoded = None
    /\ decoded' = Some(deserialize(Unwrap(wire).bytes))
    /\ UNCHANGED <<packet, wire, serverVars, presenceVars, obsVars>>

NextCodec == Serialize \/ Deserialize

SpecCodec == InitCodec /\ [][NextCodec]_vars

\* C2: for every well-formed packet p, deserialize(serialize(p)) is
\* (p, len(serialize(p))): serialize succeeds, and the decoded opcode,
\* header_0, header_1 and vars (in insertion order) equal those of p.
C2_RoundTrip ==
    /\ IsSome(wire) => Unwrap(wire).ok
    /\ IsSome(decoded) =>
         Unwrap(decoded) = [ok |-> TRUE, packet |-> packet,
                            consumed |-> Len(Unwrap(wire).bytes)]

C2_Witness ==
    /\ IsSome(decoded)
    /\ Len(packet.vars) = MaxVars
    /\ packet.header_0 = 258
    /\ packet.vars[1].kind = "String" /\ packet.vars[1].val # << >>
    /\ packet.vars[2].kind = "Int" /\ packet.vars[2].val < 0

(***************************************************************************)
(* Packet codec at the size limit: packets of 65535 bytes, a few less and  *)
(* a few more                                                              *)
(***************************************************************************)
Filler(n) == [i \in 1..n |-> 0]

\* the payload length with which a packet of one String or Data var has
\* exactly u16::MAX bytes: header, var id, type tag and the length prefix
SizeEdge == U16Max - TagHeaderLength - VarSerializeLen(Var("Data", 1, << >>))

SizeSampleTails == { << >>, << Var("Byte", 2, 7) >>, << Var("Int", 3, -1) >> }

\* one long String or Data var, then the tail: 65532 to 65538 bytes in all
SizeSamplePackets ==
    { AddVars(NewPacket(1), << Var(k, 1, Filler(SizeEdge - SumVarLen(tail) + d)) >> \o tail) :
        k \in {"String", "Data"}, d \in -3..3, tail \in SizeSampleTails }
    \cup { AddVars(NewPacket(1), vs) : vs \in SeqsUpTo(CodecSampleVars, 1) }

InitCodecSize ==
    /\ packet \in SizeSamplePackets
    /\ wire = None
    /\ decoded = None
    /\ IdleServer /\ IdlePresence /\ IdleObs

SpecCodecSize == InitCodecSize /\ [][NextCodec]_vars

WireBytes == Unwrap(wire).bytes
\* the bytes the vars of a packet take on the wire: id, tag and payload
RECURSIVE EncodedVarBytes(_)
EncodedVarBytes(vs) ==
    IF vs = << >> THEN 0 ELSE 3 + Len(VarPayload(Head(vs))) + EncodedVarBytes(Tail(vs))

\* C19: when serialize accepts a packet, the serialized_length field it writes
\* equals the number of bytes it produced, which are the 10 header bytes and
\* the bytes of every var, and the var_count field equals the number of vars:
\* neither 16-bit cast truncates.
C19_HeaderMatchesBody ==
    (IsSome(wire) /\ Unwrap(wire).ok) =>
        /\ ReadU16BE(WireBytes) = Len(WireBytes)
        /\ Len(WireBytes) = TagHeaderLength + EncodedVarBytes(packet.vars)
        /\ ReadU16BE(Drop(WireBytes, 8)) = Len(packet.vars)

C19_Witness ==
    /\ IsSome(wire) /\ Unwrap(wire).ok
    /\ Len(WireBytes) = U16Max
    /\ ReadU16BE(WireBytes) = U16Max
    /\ Len(packet.vars) = 2

\* C20: serialize fails with TooLarge exactly when the packet's size on the
\* wire (10 header bytes and every var) exceeds 65535 and returns bytes for
\* every packet of at most 65535 bytes, whose length field is then their
\* number: no length is written modulo 2^16.
C20_TooLargeExactly ==
    IsSome(wire) =>
        LET size == TagHeaderLength + EncodedVarBytes(packet.vars) IN
        /\ Unwrap(wire).ok <=> size <= U16Max
        /\ ~Unwrap(wire).ok => Unwrap(wire).err = "TooLarge"
        /\ Unwrap(wire).ok => (ReadU16BE(WireBytes) = size /\ Len(WireBytes) = size)

C20_Witness ==
    /\ IsSome(wire) /\ ~Unwrap(wire).ok
    /\ Unwrap(wire).err = "TooLarge"
    /\ TagHeaderLength + EncodedVarBytes(packet.vars) = U16Max + 1
    /\ Len(packet.vars) = 1

(***************************************************************************)
(* Decoding received bytes: a serialized packet reaches deserialize as it  *)
(* was written, cut short, extended, or with a header field overwritten    *)
(***************************************************************************)
DecodeSamplePackets ==
    { AddVars([NewPacket(op) EXCEPT !.header_0 = 258, !.header_1 = U16Max], vs) :
        op \in {5, PacketTypeUnknown}, vs \in SeqsUpTo(CodecSampleVars, MaxVars) }

\* opcodes on the wire that PacketType does not enumerate, and one it does
WireOpcodes == {0, 3, 184, -1, -I16Max - 1, I16Max - 1, 47}

Damages ==
    { << "length", d >> : d \in {-1, 1} }
    \cup { << "opcode", x >> : x \in WireOpcodes }
    \cup { << "var_count", d >> : d \in {-1, 1} }
    \cup { << "keep", n >> : n \in {0, 5, 9, 10} }
    \cup { << "cut", 1 >>, << "extend", 1 >> }

\* bytes b with the 16-bit field at offset `at` overwritten
WithField(b, at, x) == Take(b, at) \o WriteU16BE(x) \o Drop(b, at + 2)

Damaged(b, dmg) ==
    CASE dmg[1] = "length" -> WithField(b, 0, (ReadU16BE(b) + dmg[2]) % U16Size)
      [] dmg[1] = "opcode" -> WithField(b, 4, I16Bits(dmg[2]))
      [] dmg[1] = "var_count" ->
           WithField(b, 8, (ReadU16BE(Drop(b, 8)) + dmg[2]) % U16Size)
      [] dmg[1] = "keep" -> Take(b, dmg[2])
      [] dmg[1] = "cut" -> Take(b, Len(b) - 1)
      [] dmg[1] = "extend" -> b \o << 0 >>

InitDecode ==
    /\ packet \in DecodeSamplePackets
    /\ wire = None
    /\ decoded = None
    /\ IdleServer /\ IdlePresence /\ IdleObs

\* the bytes are altered on their way, at most once
Damage(dmg) ==
    /\ IsSome(wire) /\ Unwrap(wire).ok
    /\ decoded = None
    /\ last = NoOp
    /\ wire' = Some([ok |-> TRUE, bytes |-> Damaged(Unwrap(wire).bytes, dmg)])
    /\ last' = [op |-> "Damage", how |-> dmg]
    /\ UNCHANGED <<packet, decoded, serverVars, presenceVars, sent, db_calls, issued,
                   events, hb_times>>

NextDecode ==
    \/ Serialize
    \/ \E dmg \in Damages : Damage(dmg)
    \/ Deserialize

SpecDecode == InitDecode /\ [][NextDecode]_vars

Received == Unwrap(wire).bytes
Decoded == Unwrap(decoded)
\* the header fields of the received bytes and the vars that follow them
ReceivedLength == ReadU16BE(Received)
ReceivedOpcode == I16OfBits(ReadU16BE(Drop(Received, 4)))
ReceivedVars ==
    DeserializeVars(Drop(Received, TagHeaderLength), ReadU16BE(Drop(Received, 8)), << >>,
                    TagHeaderLength)

\* C21: for every input (of at least a header) whose serialized_length field
\* differs from the bytes taken by the header and the var_count vars after
\* it, deserialize returns the LengthMismatch error and no packet; when it
\* succeeds, the consumed count it returns is the serialized_length field.
C21_LengthMismatch ==
    (IsSome(decoded) /\ Len(Received) >= TagHeaderLength) =>
        /\ (ReceivedVars.ok /\ ReceivedVars.consumed # ReceivedLength)
             => Decoded = [ok |-> FALSE, panic |-> FALSE, err |-> "LengthMismatch"]
        /\ Decoded.ok => Decoded.consumed = ReceivedLength

C21_Witness ==
    /\ IsSome(decoded)
    /\ last.op = "Damage" /\ last.how = << "var_count", -1 >>
    /\ Len(packet.vars) = MaxVars
    /\ ReceivedVars.ok /\ Len(ReceivedVars.vars) = MaxVars - 1
    /\ ReceivedVars.consumed < ReceivedLength
    /\ ~Decoded.ok /\ Decoded.err = "LengthMismatch"

\* C22: deserialize never fails because of the opcode: bytes whose opcode is
\* not a PacketType value decode, when the same bytes with an enumerated
\* opcode would, to a packet with opcode Unknown (0x7FFF) and header_0,
\* header_1 and vars as on the wire; every decoded opcode is a PacketType
\* value or Unknown.
C22_UnknownOpcode ==
    IsSome(decoded) =>
        /\ Decoded.ok => Decoded.packet.opcode \in PacketTypeValues
        /\ (last.op = "Damage" /\ last.how[1] = "opcode") =>
             /\ ReceivedOpcode = last.how[2]
             /\ Decoded.ok
             /\ Decoded.packet
                  = [packet EXCEPT !.opcode = IF last.how[2] \in PacketTypeValues
                                              THEN last.how[2] ELSE PacketTypeUnknown]
             /\ Decoded.consumed = Len(Received)

C22_Witness ==
    /\ IsSome(decoded) /\ Decoded.ok
    /\ last.op = "Damage" /\ last.how = << "opcode", -1 >>
    /\ packet.opcode = 5
    /\ Decoded.packet.opcode = PacketTypeUnknown
    /\ Len(Decoded.packet.vars) = MaxVars

\* C28: deserialize given fewer bytes than the 10 of a header returns the
\* ShortRead error as a value: it does not abort and returns no packet.
C28_ShortHeader ==
    (IsSome(decoded) /\ Len(Received) < TagHeaderLength) =>
        /\ ~Decoded.ok
        /\ ~Decoded.panic
        /\ Decoded.err = "ShortRead"

(***************************************************************************)
(* Accessors: vars are added to a packet and read back by kind and id      *)
(***************************************************************************)
MaxAccessVars == 3

AccessSampleVars ==
    { Var("Byte", 1, 7), Var("Byte", 1, 8), Var("Int", 1, -1), Var("Float", 1, U32(5)),
      Var("String", 1, << 72 >>), Var("Data", 1, << 0 >>),
      Var("Byte", 2, 7), Var("Int", 2, 3), Var("String", 2, << >>) }

AccessKinds == {"Byte", "Int", "Float", "String", "Data"}

GetByKind(kind, p, var_id) ==
    CASE kind = "Byte" -> get_byte(p, var_id)
      [] kind = "Int" -> get_int(p, var_id)
      [] kind = "Float" -> get_float(p, var_id)
      [] kind = "String" -> get_string(p, var_id)
      [] kind = "Data" -> get_data(p, var_id)

InitAccessors ==
    /\ packet = NewPacket(5)
    /\ wire = None
    /\ decoded = None
    /\ IdleServer /\ IdlePresence /\ IdleObs

AddVarStep(v) ==
    /\ Len(packet.vars) < MaxAccessVars
    /\ packet' = AddVar(packet, v)
    /\ last' = [op |-> "add_var", var |-> v, had |-> IsSome(get_var(packet, v.id))]
    /\ UNCHANGED <<wire, decoded, serverVars, presenceVars, sent, db_calls, issued, events,
                   hb_times>>

GetStep(kind, var_id) ==
    /\ last' = [op |-> "get", kind |-> kind, id |-> var_id,
                result |-> GetByKind(kind, packet, var_id)]
    /\ UNCHANGED <<codecVars, serverVars, presenceVars, sent, db_calls, issued, events,
                   hb_times>>

NextAccessors ==
    \/ \E v \in AccessSampleVars : AddVarStep(v)
    \/ \E kind \in AccessKinds, var_id \in {1, 2, 3} : GetStep(kind, var_id)

SpecAccessors == InitAccessors /\ [][NextAccessors]_vars

\* after add_var(p, v) on a packet that had no var with v.id, the accessor of
\* v's kind returns Some(v.payload)
AddedVarIsRead ==
    (last.op = "add_var" /\ ~last.had)
      => GetByKind(last.var.kind, packet, last.var.id) = Some(last.var.val)

\* C23 as stated: a typed accessor returns the payload of the first var, in
\* insertion order, that has that id, and ignores every later var with that
\* id; a var added under an id the packet did not hold is read back.
C23_FirstVarWithId ==
    /\ last.op = "get" =>
         LET first == get_var(packet, last.id) IN
         last.result = IF IsSome(first) /\ Unwrap(first).kind = last.kind
                       THEN Some(Unwrap(first).val) ELSE None
    /\ AddedVarIsRead

\* C23 amended: a typed accessor returns the payload of the first var, in
\* insertion order, that is of the accessor's kind and has that id; later
\* vars of that kind and id are ignored, and vars of another kind are passed
\* over whatever their id; a var added under an id the packet did not hold
\* is read back.
C23_FirstVarOfKindWithId ==
    /\ last.op = "get" =>
         LET at == { i \in 1..Len(packet.vars) :
                       packet.vars[i].kind = last.kind /\ packet.vars[i].id = last.id }
         IN  last.result = IF at = {} THEN None
                           ELSE Some(packet.vars[CHOOSE i \in at : \A j \in at : i <= j].val)
    /\ AddedVarIsRead

C23_Witness ==
    /\ last.op = "get" /\ last.kind = "Byte" /\ last.id = 1
    /\ Len(packet.vars) = 3
    /\ packet.vars[1] = Var("Int", 1, -1)
    /\ packet.vars[2] = Var("Byte", 1, 8)
    /\ packet.vars[3] = Var("Byte", 1, 7)
    /\ last.result = Some(8)

(***************************************************************************)
(* Login: clients c1 and c2 are connected and send Login packets           *)
(***************************************************************************)
MaxSessionId == 3

NameRoot == <<"r">>
NameBob == <<"b">>
NameCarol == <<"c">>
NameNobody == <<"z">>
TouristA == <<Quote, "a", Quote>>
TouristB == <<Quote, "b", Quote>>
PassX == <<"x">>
PassY == <<"y">>
PrivS == <<"s">>
PrivT == <<"t">>

\* root is citizen 1 (the administrator), bob 5, carol 7 (disabled)
SampleDatabase ==
    { Citizen(U32(1), NameRoot, PassX, PrivS, 1),
      Citizen(U32(5), NameBob, PassY, PrivT, 1),
      Citizen(U32(7), NameCarol, PassX, PrivT, 0) }

OptVar(kind, id, o) == IF IsSome(o) THEN << Var(kind, id, Unwrap(o)) >> ELSE << >>

LoginPacket(ut, un, pw, pid, ppw, bb) ==
    AddVars(NewPacket("Login"),
            OptVar("Int", "BrowserBuild", bb) \o OptVar("Int", "UserType", ut)
            \o OptVar("String", "LoginUsername", un) \o OptVar("String", "Password", pw)
            \o OptVar("Uint", "PrivilegeUserID", pid)
            \o OptVar("String", "PrivilegePassword", ppw))

\* <<UserType, LoginUsername, Password, PrivilegeUserID, PrivilegePassword, BrowserBuild>>
LoginInputs ==
    { << None, Some(TouristA), None, None, None, Some(100) >>,
      << Some(2), Some(TouristA), None, None, None, Some(100) >>,
      << Some(3), Some(NameBob), Some(PassY), None, None, Some(100) >>,
      << Some(7), Some(TouristA), None, None, None, Some(100) >>,
      << Some(1), None, Some(PassX), None, None, Some(100) >>,
      << Some(1), Some(TouristA), None, None, None, Some(100) >>,
      << Some(1), Some(TouristA), None, None, None, None >>,
      << Some(1), Some(TouristB), None, None, None, Some(100) >>,
      << Some(1), Some(<<Quote>>), None, None, None, Some(100) >>,
      << Some(1), Some(NameRoot), Some(PassX), None, None, Some(100) >>,
      << Some(1), Some(NameRoot), Some(PassY), None, None, Some(100) >>,
      << Some(1), Some(NameBob), Some(PassY), None, None, Some(100) >>,
      << Some(1), Some(NameBob), Some(PassY), Some(U32(1)), Some(PrivS), Some(100) >>,
      << Some(1), Some(NameBob), Some(PassY), Some(U32(1)), None, Some(100) >>,
      << Some(1), Some(NameBob), None, None, None, Some(100) >>,
      << Some(1), Some(NameCarol), Some(PassX), None, None, Some(100) >>,
      << Some(1), Some(NameNobody), Some(PassX), None, None, Some(100) >> }

LoginPackets == { LoginPacket(i[1], i[2], i[3], i[4], i[5], i[6]) : i \in LoginInputs }

LoginClients == {"c1", "c2"}

InitLogin ==
    /\ IdleCodec /\ IdlePresence /\ IdleObs
    /\ client_manager = LoginClients
    /\ universe = LoginClients
    /\ info = [c \in ClientIds |-> FreshInfo]
    /\ dead = [c \in ClientIds |-> FALSE]
    /\ database = SampleDatabase
    /\ attributes = NoAttributes
    /\ next_session_id = 1
    /\ panicked = FALSE

Login(c, p) ==
    /\ ~panicked
    /\ c \in client_manager
    /\ next_session_id <= MaxSessionId
    /\ LET r == login(c, p, client_manager, info, database, next_session_id) IN
       /\ last' = [op |-> "Login", client |-> c, packet |-> p, pre |-> info[c],
                   pre_sid |-> next_session_id]
       /\ db_calls' = << >>
       /\ IF r.panic
          THEN /\ panicked' = TRUE
               /\ sent' = << >>
               /\ UNCHANGED <<info, next_session_id, issued>>
          ELSE /\ panicked' = FALSE
               /\ sent' = r.sent
               /\ info' = [info EXCEPT ![c] = r.info]
               /\ next_session_id' = IF r.success
                                     THEN create_session_id(next_session_id).next
                                     ELSE next_session_id
               /\ issued' = IF r.success THEN Append(issued, r.info.entity.session_id)
                            ELSE issued
    /\ UNCHANGED <<codecVars, presenceVars, client_manager, universe, dead, database, attributes,
                   events, hb_times>>

NextLogin == \E c \in LoginClients, p \in LoginPackets : Login(c, p)

SpecLogin == InitLogin /\ [][NextLogin]_vars

\* the reply of the last step, when it sent exactly one packet
Reply == sent[1].pkt
ReplyReason == get_int(Reply, "ReasonCode")
LastLoginCredentials == LoginCredentialsFromPacket(last.packet).val
\* the session table as it was before the last step
PreInfo == [info EXCEPT ![last.client] = last.pre]

\* C1: a Login on a session that already holds a Player identity is answered
\* with ReasonCode Unauthorized and leaves the session record (client kind,
\* session id, citizen id, privilege id, username) as it was.
C1_SecondLoginRejected ==
    (last.op = "Login" /\ ~panicked /\ IsPlayer(last.pre)) =>
        /\ Len(sent) = 1
        /\ ReplyReason = Some("Unauthorized")
        /\ info[last.client] = last.pre

\* C7: a Login with UserType = UnspecifiedHuman that fails validation on a
\* session that has not logged in leaves the session unchanged (no client kind,
\* no entity, no session id allocated); its one reply carries the failing
\* ReasonCode and neither SessionID nor CitizenName.
C7_FailedLoginLeavesSession ==
    (/\ last.op = "Login" /\ ~panicked
     /\ LastLoginCredentials.user_type = Some("UnspecifiedHuman")
     /\ last.pre = FreshInfo
     /\ ~validate_human_login(client_manager, PreInfo, database, LastLoginCredentials).ok)
    =>
        /\ info[last.client] = FreshInfo
        /\ next_session_id = last.pre_sid
        /\ Len(sent) = 1 /\ sent[1].to = last.client /\ Reply.opcode = "Login"
        /\ ReplyReason
             = Some(validate_human_login(client_manager, PreInfo, database,
                                         LastLoginCredentials).err)
        /\ ReplyReason # Some("Success")
        /\ ~HasVar(Reply, "SessionID")
        /\ ~HasVar(Reply, "CitizenName")

C7_Witness ==
    /\ last.op = "Login" /\ ~panicked
    /\ last.pre = FreshInfo
    /\ get_string(last.packet, "LoginUsername") = Some(NameBob)
    /\ get_string(last.packet, "Password") = None
    /\ ReplyReason = Some("NoSuchCitizen")
    /\ \E o \in client_manager : IsPlayer(info[o])

\* C8: the session ids installed by successful logins are strictly increasing
\* in the order the logins are handled, no two player records hold the same
\* session id, and a failed login allocates no session id.
C8_SessionIdsIncrease ==
    /\ \A i, j \in 1..Len(issued) : i < j => issued[i] < issued[j]
    /\ \A a, b \in client_manager :
         (a # b /\ IsPlayer(info[a]) /\ IsPlayer(info[b]))
           => info[a].entity.session_id # info[b].entity.session_id
    /\ \A a \in client_manager :
         IsPlayer(info[a]) => \E i \in 1..Len(issued) : issued[i] = info[a].entity.session_id
    /\ (last.op = "Login" /\ ~panicked /\ ReplyReason # Some("Success"))
         => next_session_id = last.pre_sid

C8_Witness ==
    /\ Len(issued) >= 2
    /\ \A a \in LoginClients : IsPlayer(info[a])
    /\ last.op = "Login" /\ ~panicked /\ ReplyReason # Some("Success")

\* C17: in every reachable state, a session that holds a Player record has
\* citizen_id = Some exactly when its client kind is Citizen, and a Tourist's
\* record has neither citizen_id nor privilege_id; successful, failed and
\* repeated logins keep it so.
C17_CitizenIdIffCitizen ==
    \A c \in client_manager :
      IsPlayer(info[c]) =>
        /\ info[c].client_type \in {Some("Citizen"), Some("Tourist")}
        /\ IsSome(info[c].entity.citizen_id) <=> info[c].client_type = Some("Citizen")
        /\ info[c].client_type = Some("Tourist")
             => info[c].entity.citizen_id = None /\ info[c].entity.privilege_id = None

C17_Witness ==
    /\ info["c1"].client_type = Some("Tourist") /\ IsPlayer(info["c1"])
    /\ info["c2"].client_type = Some("Citizen") /\ IsPlayer(info["c2"])
    /\ info["c2"].entity.privilege_id = Some(U32(1))
    /\ last.op = "Login" /\ ~panicked /\ last.client = "c1"
    /\ last.pre.client_type = Some("Citizen")
    /\ ReplyReason = Some("Success")

\* C18: every Login with UserType = UnspecifiedHuman gets exactly one Login
\* reply, sent to the sender, whose last two vars are UniverseLicense and
\* then ReasonCode; when validation succeeds the ReasonCode is Success and
\* the reply carries CitizenName and SessionID of the Player record the
\* login installed, and when it fails the ReasonCode is the failure's.
C18_LoginReplyShape ==
    (last.op = "Login" /\ get_int(last.packet, "UserType") = Some(1))
    =>
        LET v == validate_human_login(client_manager, PreInfo, database,
                                      LastLoginCredentials)
            n == Len(Reply.vars)
        IN  /\ ~panicked
            /\ Len(sent) = 1 /\ sent[1].to = last.client /\ Reply.opcode = "Login"
            /\ n >= 2
            /\ Reply.vars[n - 1].id = "UniverseLicense" /\ Reply.vars[n - 1].kind = "Data"
            /\ Reply.vars[n].id = "ReasonCode" /\ Reply.vars[n].kind = "Int"
            /\ ReplyReason = Some(IF v.ok THEN "Success" ELSE v.err)
            /\ v.ok =>
                 /\ IsPlayer(info[last.client])
                 /\ info[last.client].entity.session_id = last.pre_sid
                 /\ get_string(Reply, "CitizenName")
                      = Some(info[last.client].entity.username)
                 /\ get_int(Reply, "SessionID")
                      = Some(info[last.client].entity.session_id)

C18_Witness ==
    /\ last.op = "Login" /\ ~panicked
    /\ get_int(last.packet, "UserType") = Some(1)
    /\ ReplyReason = Some("Success")
    /\ get_uint(Reply, "CitizenNumber") = Some(U32(5))
    /\ get_int(Reply, "SessionID") = Some(2)
    /\ info[last.client].entity.session_id = 2
    /\ Len(Reply.vars) = 9

\* C11: whatever vars a Login packet carries (UserType absent included) and
\* whatever its UserType value (Bot included), the login handler runs to
\* completion: it sends its reply and the process has not aborted.
C11_LoginRunsToCompletion ==
    last.op = "Login" => (~panicked /\ Len(sent) = 1)

(***************************************************************************)
(* Directory: logged-in and not logged-in sessions send citizen queries    *)
(***************************************************************************)
NameDora == <<"d">>
NameZero == <<"n">>
NameMax == <<"m">>
NameNew == <<"w">>

\* the sample citizens plus citizens 0, 6 and u32::MAX
WideDatabase ==
    SampleDatabase \cup { Citizen(U32Zero, NameZero, PassX, PrivT, 1),
                          Citizen(U32(6), NameDora, PassY, PrivT, 1),
                          Citizen(U32Max, NameMax, PassX, PrivT, 1) }

DirDatabases == {SampleDatabase, WideDatabase}

\* the session record a first Login with these inputs installs
SessionAfter(i, sid) ==
    login("c1", LoginPacket(i[1], i[2], i[3], i[4], i[5], i[6]), {"c1"},
          [c \in ClientIds |-> FreshInfo], SampleDatabase, sid).info

WorldServerInfo ==
    [client_type |-> Some("World"), entity |-> [kind |-> "WorldServer", worlds |-> << >>]]

LoginAsTourist == << Some(1), Some(TouristA), None, None, None, Some(100) >>
LoginAsBob == << Some(1), Some(NameBob), Some(PassY), None, None, Some(100) >>
LoginAsRoot == << Some(1), Some(NameRoot), Some(PassX), None, None, Some(100) >>
LoginAsBobPrivileged ==
    << Some(1), Some(NameBob), Some(PassY), Some(U32(1)), Some(PrivS), Some(100) >>

DirSessions(sid) ==
    {FreshInfo, WorldServerInfo}
    \cup { SessionAfter(i, sid) :
             i \in {LoginAsTourist, LoginAsBob, LoginAsRoot, LoginAsBobPrivileged} }

DirClients == {"c1", "c2"}
\* c1 sends the queries; c2, an administrator, is connected and idle
DirCallers == {"c1"}

InitDirectory ==
    /\ IdleCodec /\ IdlePresence /\ IdleObs
    /\ client_manager = DirClients
    /\ universe = DirClients
    /\ \E s \in DirSessions(1) :
         info = [c \in ClientIds |->
                   IF c = "c1" THEN s
                   ELSE IF c = "c2" THEN SessionAfter(LoginAsRoot, 2)
                   ELSE FreshInfo]
    /\ dead = [c \in ClientIds |-> FALSE]
    /\ database \in DirDatabases
    /\ attributes = NoAttributes
    /\ next_session_id = 3
    /\ panicked = FALSE

NumberPackets(op, ids) ==
    { AddVars(NewPacket(op), OptVar("Uint", "CitizenNumber", n)) : n \in ids }

NextPrevNumbers ==
    {None, Some(U32Zero), Some(U32(1)), Some(U32(4)), Some(U32(6)), Some(U32(7)),
     Some(U32Max)}
LookupNumbers == {None, Some(U32(1)), Some(U32(5)), Some(U32(9))}
LookupNames == {None, Some(NameRoot), Some(NameBob), Some(NameNobody)}

\* a CitizenChange packet: every required var, of which name, number and the
\* admin-gated fields vary
ChangePacket(name, id, gated) ==
    AddVars(NewPacket("CitizenChange"),
            << Var("String", "CitizenName", name), Var("Uint", "CitizenNumber", id),
               Var("String", "CitizenEmail", <<"e", "2">>),
               Var("String", "CitizenPrivilegePassword", PrivT),
               Var("Uint", "CitizenExpiration", gated), Var("Uint", "CitizenBotLimit", gated),
               Var("Uint", "BetaUser", gated), Var("Uint", "CitizenEnabled", gated),
               Var("String", "CitizenComment", <<"K">>),
               Var("String", "CitizenPassword", PassY), Var("String", "CitizenURL", <<"v">>),
               Var("Uint", "CAVTemplate", U32(2)), Var("Uint", "CAVEnabled", gated),
               Var("Uint", "CitizenPrivacy", U32(1)), Var("Uint", "TrialUser", gated) >>)

ChangePackets ==
    { ChangePacket(name, id, U32(8)) :
        name \in {NameRoot, NameBob, NameNew}, id \in {U32(1), U32(5), U32(9)} }
    \cup { [ChangePacket(NameBob, U32(5), U32(8)) EXCEPT !.vars = Take(@, 14)] }

\* the reply goes to the caller alone
Respond(c, response) == << [to |-> c, pkt |-> response] >>

Lookup(c, op, p, r) ==
    /\ ~panicked
    /\ c \in client_manager
    /\ sent' = Respond(c, r.response)
    /\ db_calls' = r.db_calls
    /\ last' = [op |-> op, client |-> c, packet |-> p, pre |-> info[c],
                db_written |-> FALSE]
    /\ UNCHANGED <<codecVars, presenceVars, serverVars, issued, events, hb_times>>

CitizenNext(c, p) == Lookup(c, "CitizenNext", p, citizen_next(info[c], p, database))
CitizenPrev(c, p) == Lookup(c, "CitizenPrev", p, citizen_prev(info[c], p, database))
CitizenLookupByName(c, p) ==
    Lookup(c, "CitizenLookupByName", p, citizen_lookup_by_name(info[c], p, database))
CitizenLookupByNumber(c, p) ==
    Lookup(c, "CitizenLookupByNumber", p, citizen_lookup_by_number(info[c], p, database))

CitizenChange(c, p, db_ok) ==
    /\ ~panicked
    /\ c \in client_manager
    /\ LET r == citizen_change_handler(info[c], p, database, db_ok) IN
       /\ sent' = [i \in 1..Len(r.sent) |-> [to |-> c, pkt |-> r.sent[i]]]
       /\ db_calls' = r.db_calls
       /\ database' = r.db
       /\ last' = [op |-> "CitizenChange", client |-> c, packet |-> p, pre |-> info[c],
                   db_written |-> r.db # database]
    /\ UNCHANGED <<attributes, codecVars, presenceVars, client_manager, universe, info, dead,
                   next_session_id, panicked, issued, events, hb_times>>

NextDirectory ==
    \E c \in DirCallers :
       \/ \E p \in NumberPackets("CitizenNext", NextPrevNumbers) : CitizenNext(c, p)
       \/ \E p \in NumberPackets("CitizenPrev", NextPrevNumbers) : CitizenPrev(c, p)
       \/ \E p \in { AddVars(NewPacket("CitizenLookupByName"),
                             OptVar("String", "CitizenName", n)) : n \in LookupNames } :
            CitizenLookupByName(c, p)
       \/ \E p \in NumberPackets("CitizenLookupByNumber", LookupNumbers) :
            CitizenLookupByNumber(c, p)
       \/ \E p \in ChangePackets, db_ok \in BOOLEAN : CitizenChange(c, p, db_ok)

SpecDirectory == InitDirectory /\ [][NextDirectory]_vars

LookupOps == {"CitizenNext", "CitizenPrev", "CitizenLookupByName", "CitizenLookupByNumber"}
VarIdsOf(p) == { p.vars[i].id : i \in 1..Len(p.vars) }

\* C3: a CitizenChange (carrying every citizen var) from a caller that is not
\* an admin and whose own citizen_id differs from the packet's CitizenNumber is
\* answered with ReasonCode Unauthorized, whatever the session's state, and
\* makes no database call.
C3_ForeignChangeUnauthorized ==
    (/\ last.op = "CitizenChange"
     /\ ~has_admin_permissions(last.pre)
     /\ citizen_from_packet(last.packet).ok
     /\ (IsPlayer(last.pre) => last.pre.entity.citizen_id # get_uint(last.packet, "CitizenNumber")))
    =>
        /\ Len(sent) = 1
        /\ ReplyReason = Some("Unauthorized")
        /\ db_calls = << >>
        /\ ~last.db_written

\* C4: CitizenNext, CitizenPrev, CitizenLookupByName and CitizenLookupByNumber
\* from a caller without admin permissions are answered with exactly one
\* CitizenInfo packet, sent to the caller, whose only var is
\* ReasonCode = Unauthorized, and make no database call.
C4_LookupNeedsAdmin ==
    (last.op \in LookupOps /\ ~has_admin_permissions(last.pre)) =>
        /\ sent = Respond(last.client, CitizenInfoRefusal("Unauthorized"))
        /\ Reply.opcode = "CitizenInfo"
        /\ Reply.vars = << Var("Int", "ReasonCode", "Unauthorized") >>
        /\ db_calls = << >>
        /\ ~last.db_written

C4_Witness ==
    /\ last.op = "CitizenLookupByNumber"
    /\ IsPlayer(last.pre) /\ ~has_admin_permissions(last.pre)
    /\ Some(last.pre.entity.citizen_id) = Some(get_uint(last.packet, "CitizenNumber"))
    /\ Len(sent) = 1

PublicVarIds ==
    {"CitizenNumber", "CitizenName", "CitizenURL", "TrialUser", "CAVEnabled", "CAVTemplate"}
PrivateVarIds ==
    {"CitizenImmigration", "CitizenExpiration", "CitizenLastLogin", "CitizenTotalTime",
     "CitizenBotLimit", "BetaUser", "CitizenEnabled", "CitizenPrivacy", "CitizenPassword",
     "CitizenEmail", "CitizenPrivilegePassword"}
AdminVarIds == {"CitizenComment", "IdentifyUserIP"}

\* the projection rules on a list of citizen vars
Projected(ids, self_or_admin, admin) ==
    /\ PublicVarIds \subseteq ids
    /\ \A v \in PrivateVarIds : v \in ids <=> self_or_admin
    /\ \A v \in AdminVarIds : v \in ids <=> admin

\* C5: a CitizenInfo reply that carries a citizen record always has the public
\* vars, has the private vars iff the requester is that citizen or an admin,
\* and has CitizenComment and IdentifyUserIP iff the requester is an admin;
\* the projection itself obeys these rules for every citizen and requester.
C5_FieldProjection ==
    /\ (last.op \in LookupOps /\ HasVar(Reply, "CitizenNumber")) =>
          Projected(VarIdsOf(Reply) \ {"ReasonCode"},
                    \/ has_admin_permissions(last.pre)
                    \/ last.pre.entity.citizen_id = get_uint(Reply, "CitizenNumber"),
                    has_admin_permissions(last.pre))
    /\ \A c \in database, self_vars \in BOOLEAN, admin_vars \in BOOLEAN :
          Projected(VarIdsOf([vars |-> citizen_info_vars(c, self_vars, admin_vars)]),
                    self_vars \/ admin_vars, admin_vars)

C5_Witness ==
    /\ last.op = "CitizenLookupByName"
    /\ HasVar(Reply, "CitizenNumber")
    /\ last.pre.entity.citizen_id # get_uint(Reply, "CitizenNumber")
    /\ last.pre.entity.citizen_id # Some(U32(1))
    /\ HasVar(Reply, "CitizenComment")

MinId(cs) == CHOOSE c \in cs : \A o \in cs : ~U32Less(o.id, c.id)
MaxId(cs) == CHOOSE c \in cs : \A o \in cs : ~U32Less(c.id, o.id)

\* the reply that names the citizen `cs` selects, or NoSuchCitizen when cs is empty
RepliesWith(cs, pick) ==
    IF cs = {} THEN ReplyReason = Some("NoSuchCitizen") /\ ~HasVar(Reply, "CitizenNumber")
    ELSE /\ ReplyReason = Some("Success")
         /\ get_uint(Reply, "CitizenNumber") = Some(pick.id)
         /\ get_string(Reply, "CitizenName") = Some(pick.name)

\* C6: for an admin caller, CitizenNext(n) replies with the citizen of the
\* smallest stored id greater than n and CitizenPrev(n) with the citizen of the
\* largest stored id less than n, with ReasonCode Success; the reply is
\* NoSuchCitizen only when there is no such citizen.
C6_NextPrevSkipGaps ==
    (/\ last.op \in {"CitizenNext", "CitizenPrev"}
     /\ has_admin_permissions(last.pre)
     /\ IsSome(get_uint(last.packet, "CitizenNumber")))
    =>
        LET n == Unwrap(get_uint(last.packet, "CitizenNumber"))
            above == {c \in database : U32Less(n, c.id)}
            below == {c \in database : U32Less(c.id, n)}
        IN  IF last.op = "CitizenNext"
            THEN RepliesWith(above, MinId(above))
            ELSE RepliesWith(below, MaxId(below))

\* C24: the id arithmetic of CitizenNext and CitizenPrev does not wrap, and
\* an admin's CitizenNext with CitizenNumber = 2^32-1 and an admin's
\* CitizenPrev with CitizenNumber = 0 are answered with ReasonCode
\* NoSuchCitizen and no citizen record, whatever citizens are stored.
C24_BoundariesNoSuchCitizen ==
    (/\ last.op \in {"CitizenNext", "CitizenPrev"}
     /\ has_admin_permissions(last.pre)
     /\ get_uint(last.packet, "CitizenNumber")
          = Some(IF last.op = "CitizenNext" THEN U32Max ELSE U32Zero))
    =>
        /\ Len(sent) = 1
        /\ ReplyReason = Some("NoSuchCitizen")
        /\ VarIdsOf(Reply) = {"ReasonCode"}

\* the request of a CitizenChange step and the caller's standing
ChangeQuery == citizen_from_packet(last'.packet)
MayChange(inf, q) ==
    IsPlayer(inf) /\ (inf.entity.citizen_id = Some(q.id) \/ has_admin_permissions(inf))
UniqueNames(db) == \A a, b \in db : (a.name = b.name \/ a.id = b.id) => a = b

NameCollisionStep ==
    (/\ last'.op = "CitizenChange"
     /\ ChangeQuery.ok
     /\ \E o \in database : o.name = ChangeQuery.val.name /\ o.id # ChangeQuery.val.id)
    =>
        /\ database' = database
        /\ (/\ MayChange(last'.pre, ChangeQuery.val)
            /\ citizen_by_number(database, ChangeQuery.val.id).ok)
           => /\ Len(sent') = 1
              /\ get_int(sent'[1].pkt, "ReasonCode") = Some("NameAlreadyUsed")

GatedFields == {"comment", "expiration", "bot_limit", "beta", "cav_enabled", "enabled", "trial"}
KeptFields == {"id", "immigration", "last_login", "last_address", "total_time"}

GatedWriteStep ==
    (/\ last'.op = "CitizenChange"
     /\ ChangeQuery.ok
     /\ Len(sent') = 1
     /\ get_int(sent'[1].pkt, "ReasonCode") = Some("Success")
     /\ citizen_by_number(database, ChangeQuery.val.id).ok)
    =>
        LET old == citizen_by_number(database, ChangeQuery.val.id).val
            new == citizen_by_number(database', ChangeQuery.val.id)
        IN  /\ new.ok
            /\ \A f \in KeptFields : new.val[f] = old[f]
            /\ \A f \in GatedFields :
                 new.val[f] = IF has_admin_permissions(last'.pre)
                              THEN ChangeQuery.val[f] ELSE old[f]

\* C16: a successful CitizenChange by a caller without admin permissions
\* leaves comment, expiration, bot_limit, beta, cav_enabled, enabled and
\* trial of the stored record as they were, whatever the packet carries; one
\* by an admin stores the packet's values for them. Either way id,
\* immigration, last_login, last_address and total_time keep their values.
C16_GatedFields == [][GatedWriteStep]_vars

C16_Witness ==
    /\ last.op = "CitizenChange"
    /\ IsPlayer(last.pre) /\ ~has_admin_permissions(last.pre)
    /\ last.pre.entity.citizen_id = Some(U32(5))
    /\ Len(sent) = 1 /\ ReplyReason = Some("Success")
    /\ last.db_written
    /\ get_uint(last.packet, "CitizenExpiration") = Some(U32(8))
    /\ citizen_by_number(database, U32(5)).val.expiration = U32Zero
    /\ citizen_by_number(database, U32(5)).val.url = <<"v">>

(***************************************************************************)
(* purge_dead_clients (system/purge.rs)                                    *)
(***************************************************************************)
Event(ev, c, data) == [ev |-> ev, client |-> c, data |-> data]

\* packet_handler::world_server_hide_all
world_server_hide_all(server_info) ==
    [server_info EXCEPT !.worlds = [i \in 1..Len(@) |-> [@[i] EXCEPT !.state = "Hidden"]]]

\* a sweep step that removes the dead client without telling anyone
PurgeClientSilently(id, st) ==
    IF ~st.dead[id] THEN st
    ELSE [st EXCEPT !.client_manager = @ \ {id},
                    !.remove_entities = Append(@, id),
                    !.events = Append(@, Event("remove_client", id, st.client_manager \ {id}))]

\* a sweep step that drops the client of a dead session and keeps its entity
PurgeClientKeepEntity(id, st) ==
    IF ~st.dead[id] THEN st
    ELSE [st EXCEPT !.client_manager = @ \ {id},
                    !.events = Append(@, Event("remove_client", id, st.client_manager \ {id}))]

\* purge_dead_clients, lines 18-39: the body of the loop for the entity of
\* ClientID id; st is the server state with the effects so far
PurgeClient(id, st) ==
    IF ~st.dead[id] THEN st
    ELSE
    LET entity0 == st.info[id].entity
        \* lines 20-22
        entity1 == IF entity0.kind = "WorldServer" THEN world_server_hide_all(entity0)
                   ELSE entity0
        ev1 == IF entity0.kind = "WorldServer"
               THEN << Event("world_server_hide_all", id, entity1.worlds),
                       \* lines 23-25
                       Event("World::send_updates_to_all", id,
                             [worlds |-> entity1.worlds, to |-> st.client_manager]) >>
               ELSE << >>
        \* lines 27-29
        entity2 == IF entity1.kind = "Player" THEN [entity1 EXCEPT !.state = "Offline"]
                   ELSE entity1
        ev2 == IF entity1.kind = "Player"
               THEN << Event("set_offline", id, entity2.state),
                       \* lines 30-31
                       Event("PlayerInfo::send_update_to_all", id,
                             [player |-> entity2, to |-> st.client_manager]) >>
                    \* lines 33-36
                    \o (IF IsSome(entity2.citizen_id)
                        THEN << Event("update_contacts_of_user", id,
                                      [citizen_id |-> Unwrap(entity2.citizen_id),
                                       to |-> st.client_manager]) >>
                        ELSE << >>)
               ELSE << >>
    IN  \* lines 38-39
        [st EXCEPT !.info[id].entity = entity2,
                   !.client_manager = @ \ {id},
                   !.remove_entities = Append(@, id),
                   !.events = @ \o ev1 \o ev2
                              \o << Event("remove_client", id, st.client_manager \ {id}) >>]

\* the loop over the entities that have a ClientID, in the order the store
\* yields them; the expect aborts when the client manager lacks the id
RECURSIVE PurgeLoop(_, _)
PurgeLoop(order, st) ==
    IF order = << >> \/ st.panic THEN st
    ELSE IF Head(order) \notin st.client_manager THEN [st EXCEPT !.panic = TRUE]
    ELSE PurgeLoop(Tail(order), PurgeClient(Head(order), st))

\* purge_dead_clients: the sweep, then the despawn of the removed entities
purge_dead_clients(order, cm, uni, inf, dd) ==
    LET st == PurgeLoop(order, [client_manager |-> cm, info |-> inf, dead |-> dd,
                                remove_entities |-> << >>, events |-> << >>,
                                panic |-> FALSE])
        gone == {st.remove_entities[i] : i \in 1..Len(st.remove_entities)}
    IN  [panic |-> st.panic,
         client_manager |-> st.client_manager,
         universe |-> uni \ gone,
         \* the Client of a removed id is dropped with its session record
         info |-> [c \in DOMAIN inf |-> IF c \in gone THEN FreshInfo ELSE st.info[c]],
         dead |-> [c \in DOMAIN dd |-> IF c \in gone THEN FALSE ELSE dd[c]],
         events |-> st.events]

\* the orders in which a query may yield the entities of the set S
Orders(S) ==
    { o \in [1..Cardinality(S) -> S] : \A i, j \in 1..Cardinality(S) : i # j => o[i] # o[j] }

(***************************************************************************)
(* Purge: sessions of every kind die and are swept                         *)
(***************************************************************************)
Online(inf) ==
    IF IsPlayer(inf)
    THEN [inf EXCEPT !.entity = [kind |-> "Player", build |-> @.build,
                                 session_id |-> @.session_id, citizen_id |-> @.citizen_id,
                                 privilege_id |-> @.privilege_id, username |-> @.username,
                                 state |-> "Online"]]
    ELSE inf

HostingInfo ==
    [client_type |-> Some("World"),
     entity |-> [kind |-> "WorldServer",
                 worlds |-> << [name |-> <<"a">>, state |-> "Started"],
                               [name |-> <<"b">>, state |-> "Started"] >>]]

PurgeSessions(sid) ==
    {FreshInfo, HostingInfo}
    \cup { Online(SessionAfter(i, sid)) : i \in {LoginAsTourist, LoginAsBob} }

SessionIdOf(c) == CASE c = "c1" -> 1 [] c = "c2" -> 2 [] c = "c3" -> 3

InitPurge ==
    /\ IdleCodec /\ IdlePresence /\ IdleObs
    /\ client_manager = ClientIds
    /\ universe = ClientIds
    /\ info \in [ClientIds -> UNION {PurgeSessions(n) : n \in 1..3}]
    /\ \A c \in ClientIds : info[c] \in PurgeSessions(SessionIdOf(c))
    /\ dead = [c \in ClientIds |-> FALSE]
    /\ database = SampleDatabase
    /\ attributes = NoAttributes
    /\ next_session_id = 4
    /\ panicked = FALSE

\* the connection of c breaks
MarkDead(c) ==
    /\ ~panicked
    /\ c \in client_manager
    /\ ~dead[c]
    /\ dead' = [dead EXCEPT ![c] = TRUE]
    /\ last' = [op |-> "MarkDead", client |-> c]
    /\ sent' = << >>
    /\ db_calls' = << >>
    /\ events' = << >>
    /\ UNCHANGED <<codecVars, presenceVars, client_manager, universe, info, database, attributes,
                   next_session_id, panicked, issued, hb_times>>

PurgeDeadClients(order) ==
    /\ ~panicked
    /\ LET r == purge_dead_clients(order, client_manager, universe, info, dead) IN
       /\ panicked' = r.panic
       /\ client_manager' = r.client_manager
       /\ universe' = r.universe
       /\ info' = r.info
       /\ dead' = r.dead
       /\ events' = r.events
    /\ last' = [op |-> "Purge", pre_info |-> info, pre_dead |-> dead,
                pre_clients |-> client_manager]
    /\ sent' = << >>
    /\ db_calls' = << >>
    /\ UNCHANGED <<codecVars, presenceVars, database, attributes, next_session_id, issued,
                   hb_times>>

NextPurge ==
    \/ \E c \in ClientIds : MarkDead(c)
    \/ \E order \in Orders(universe) : PurgeDeadClients(order)

SpecPurge == InitPurge /\ [][NextPurge]_vars

EventsOf(ev, c) == { i \in 1..Len(events) : events[i].ev = ev /\ events[i].client = c }
\* for client c, exactly one event ev1 and one event ev2, in that order
Ordered(ev1, ev2, c) ==
    /\ Cardinality(EventsOf(ev1, c)) = 1
    /\ Cardinality(EventsOf(ev2, c)) = 1
    /\ \A i \in EventsOf(ev1, c), j \in EventsOf(ev2, c) : i < j

\* C9: after a purge sweep every session that was dead at its start is absent
\* from the client manager and the entity store; before its removal a dead
\* WorldServer had all its worlds hidden and then the world update sent, a
\* dead Player was set Offline and then the player update broadcast, and a
\* dead Player with a citizen_id (and no other) had its contacts notified.
C9_PurgeSweep ==
    (last.op = "Purge" /\ ~panicked) =>
      \A c \in last.pre_clients :
        last.pre_dead[c] =>
          LET entity == last.pre_info[c].entity IN
          /\ c \notin client_manager
          /\ c \notin universe
          /\ Cardinality(EventsOf("remove_client", c)) = 1
          /\ entity.kind = "WorldServer" =>
               /\ Ordered("world_server_hide_all", "World::send_updates_to_all", c)
               /\ Ordered("World::send_updates_to_all", "remove_client", c)
               /\ \A i \in EventsOf("World::send_updates_to_all", c) :
                    /\ Len(events[i].data.worlds) = Len(entity.worlds)
                    /\ \A w \in 1..Len(entity.worlds) :
                         events[i].data.worlds[w].state = "Hidden"
          /\ entity.kind = "Player" =>
               /\ Ordered("set_offline", "PlayerInfo::send_update_to_all", c)
               /\ Ordered("PlayerInfo::send_update_to_all", "remove_client", c)
               /\ \A i \in EventsOf("PlayerInfo::send_update_to_all", c) :
                    events[i].data.player.state = "Offline"
               /\ IF IsSome(entity.citizen_id)
                  THEN /\ Ordered("PlayerInfo::send_update_to_all",
                                  "update_contacts_of_user", c)
                       /\ Ordered("update_contacts_of_user", "remove_client", c)
                       /\ \A i \in EventsOf("update_contacts_of_user", c) :
                            events[i].data.citizen_id = Unwrap(entity.citizen_id)
                  ELSE EventsOf("update_contacts_of_user", c) = {}
          /\ entity.kind # "Player" => EventsOf("update_contacts_of_user", c) = {}

C9_Witness ==
    /\ last.op = "Purge" /\ ~panicked
    /\ \E a, b, c \in last.pre_clients :
         /\ last.pre_dead[a] /\ last.pre_info[a].entity.kind = "WorldServer"
         /\ last.pre_dead[b] /\ IsPlayer(last.pre_info[b])
         /\ IsSome(last.pre_info[b].entity.citizen_id)
         /\ last.pre_dead[c] /\ IsPlayer(last.pre_info[c])
         /\ ~IsSome(last.pre_info[c].entity.citizen_id)
    /\ client_manager = {}

(***************************************************************************)
(* send_heartbeats (system/heartbeat.rs)                                   *)
(***************************************************************************)
HeartbeatInterval == 30

\* a heartbeat step that forgets to record when it sent
HeartbeatClientNoRecord(id, t, st) ==
    IF st.heartbeat[id].last_time + HeartbeatInterval <= t
    THEN [st EXCEPT !.sent = Append(@, [to |-> id, pkt |-> NewPacket("Heartbeat")])]
    ELSE st

\* a heartbeat step that waits for more than the interval to have passed
HeartbeatClientLate(id, t, st) ==
    IF st.heartbeat[id].last_time + HeartbeatInterval < t
    THEN [st EXCEPT !.sent = Append(@, [to |-> id, pkt |-> NewPacket("Heartbeat")]),
                    !.heartbeat[id].last_time = t]
    ELSE st

\* send_heartbeats, lines 22-30: the body of the loop for the entity of
\* ClientID id at time t
HeartbeatClient(id, t, st) ==
    LET next_heartbeat == st.heartbeat[id].last_time + HeartbeatInterval IN
    IF next_heartbeat <= t
    THEN [st EXCEPT !.sent = Append(@, [to |-> id, pkt |-> NewPacket("Heartbeat")]),
                    !.heartbeat[id].last_time = t]
    ELSE st

RECURSIVE HeartbeatLoop(_, _, _, _)
HeartbeatLoop(order, cm, t, st) ==
    IF order = << >> \/ st.panic THEN st
    ELSE IF Head(order) \notin cm THEN [st EXCEPT !.panic = TRUE]
    ELSE HeartbeatLoop(Tail(order), cm, t, HeartbeatClient(Head(order), t, st))

\* send_heartbeats
send_heartbeats(order, cm, hb, t) ==
    HeartbeatLoop(order, cm, t, [heartbeat |-> hb, sent |-> << >>, panic |-> FALSE])

(***************************************************************************)
(* Heartbeat: the main loop runs once per second: purge, then heartbeats   *)
(***************************************************************************)
MaxTime == 95
ConnectBy == 3

HbClients == {"c1", "c2"}

NoHistory == [t0s |-> {}, sent |-> {}]

InitHeartbeat ==
    /\ IdleCodec
    /\ client_manager = {"c1"}
    /\ universe = {"c1"}
    /\ info = [c \in ClientIds |-> FreshInfo]
    /\ dead = [c \in ClientIds |-> FALSE]
    /\ database = SampleDatabase
    /\ attributes = NoAttributes
    /\ next_session_id = 1
    /\ panicked = FALSE
    /\ now = 0
    /\ heartbeat = [c \in ClientIds |-> [last_time |-> 0]]
    /\ sent = << >> /\ db_calls = << >> /\ last = NoOp /\ issued = << >> /\ events = << >>
    /\ hb_times = [c \in ClientIds |-> IF c = "c1" THEN [t0s |-> {0}, sent |-> {}]
                                       ELSE NoHistory]

\* a connection is accepted: a session record with a Heartbeat of the current time
Connect(c) ==
    /\ ~panicked
    /\ now <= ConnectBy
    /\ c \notin client_manager
    /\ client_manager' = client_manager \cup {c}
    /\ universe' = universe \cup {c}
    /\ info' = [info EXCEPT ![c] = FreshInfo]
    /\ dead' = [dead EXCEPT ![c] = FALSE]
    /\ heartbeat' = [heartbeat EXCEPT ![c] = [last_time |-> now]]
    /\ hb_times' = [hb_times EXCEPT ![c] = [t0s |-> {now}, sent |-> {}]]
    /\ last' = [op |-> "Connect", client |-> c]
    /\ sent' = << >> /\ db_calls' = << >> /\ events' = << >>
    /\ UNCHANGED <<codecVars, now, database, attributes, next_session_id, panicked, issued>>

\* a connected session takes an identity: a world server registers its worlds
\* or a citizen logs in
HbIdentities(c) == {HostingInfo, Online(SessionAfter(LoginAsBob, SessionIdOf(c)))}

Identify(c, s) ==
    /\ ~panicked
    /\ c \in client_manager
    /\ info[c] = FreshInfo
    /\ info' = [info EXCEPT ![c] = s]
    /\ last' = [op |-> "Identify", client |-> c]
    /\ sent' = << >> /\ db_calls' = << >> /\ events' = << >>
    /\ UNCHANGED <<codecVars, presenceVars, client_manager, universe, dead, database,
                   attributes, next_session_id, panicked, issued, hb_times>>

\* one iteration of the main loop, a second after the previous one
Tick(order) ==
    /\ ~panicked
    /\ now < MaxTime
    /\ now' = now + 1
    /\ LET p == purge_dead_clients(order, client_manager, universe, info, dead)
           rest == SelectSeq(order, LAMBDA c : c \in p.universe)
           h == send_heartbeats(rest, p.client_manager, heartbeat, now')
           gone == universe \ p.universe
       IN  /\ panicked' = (p.panic \/ h.panic)
           /\ client_manager' = p.client_manager
           /\ universe' = p.universe
           /\ info' = p.info
           /\ dead' = p.dead
           /\ events' = p.events
           /\ heartbeat' = [c \in ClientIds |->
                              IF c \in gone THEN [last_time |-> 0] ELSE h.heartbeat[c]]
           /\ sent' = h.sent
           /\ hb_times' = [c \in ClientIds |->
                             IF c \in gone THEN NoHistory
                             ELSE IF \E i \in 1..Len(h.sent) : h.sent[i].to = c
                             THEN [t0s |-> hb_times[c].t0s \cup {h.heartbeat[c].last_time},
                                   sent |-> hb_times[c].sent \cup {now'}]
                             ELSE hb_times[c]]
           /\ last' = [op |-> "Tick", pre_info |-> info, pre_dead |-> dead,
                       pre_clients |-> client_manager, pre_heartbeat |-> heartbeat]
    /\ db_calls' = << >>
    /\ UNCHANGED <<codecVars, database, attributes, next_session_id, issued>>

NextHeartbeat ==
    \/ \E c \in HbClients : Connect(c)
    \/ \E c \in HbClients : MarkDead(c)
    \/ \E c \in HbClients : \E s \in HbIdentities(c) : Identify(c, s)
    \/ \E order \in Orders(universe) : Tick(order)

SpecHeartbeat == InitHeartbeat /\ [][NextHeartbeat]_vars

\* the times in [t0+30, t0+60) at which a Heartbeat was sent to c
SentInWindow(c, t0) ==
    { t \in hb_times[c].sent : t0 + HeartbeatInterval <= t /\ t < t0 + 2 * HeartbeatInterval }

\* C10: with the tick running once per second, a registered session whose
\* last_time was set to t0 (when it connected or when a Heartbeat was sent) is
\* sent at most one Heartbeat in [t0+30, t0+60), and exactly one once the ticks
\* of that interval have run.
C10_OneHeartbeatPerWindow ==
    \A c \in client_manager :
      \A t0 \in hb_times[c].t0s :
        /\ Cardinality(SentInWindow(c, t0)) <= 1
        /\ now >= t0 + 2 * HeartbeatInterval - 1 => Cardinality(SentInWindow(c, t0)) = 1

C10_Witness ==
    \E c \in client_manager :
      \E t0 \in hb_times[c].sent :
        /\ now >= t0 + 2 * HeartbeatInterval - 1
        /\ Cardinality(SentInWindow(c, t0)) = 1
        /\ heartbeat[c].last_time = t0 + HeartbeatInterval

(***************************************************************************)
(* User list (user_handler.rs: user_list, ip_to_num) and the packet group  *)
(* it fills                                                                *)
(***************************************************************************)
\* the peer address of each connection: IPv4 octets, or << >> for an IPv6 peer
ClientAddr(c) ==
    CASE c = "c1" -> << 10, 0, 0, 1 >>
      [] c = "c2" -> << 192, 168, 1, 2 >>
      [] c = "c3" -> << >>

\* ip_to_num: the octets taken last to first, each shifted in from the right
ip_to_num(ip) ==
    IF Len(ip) = 4
    THEN << ip[4] * U8Size + ip[3], ip[2] * U8Size + ip[1] >>
    ELSE U32Zero

\* SystemTime::now() ... .as_secs() as i32
NowAsI32(t) == I32OfBits(U32(t))

\* i32::saturating_sub
I32SaturatingSub(a, b) == IF a < (-I32Max - 1) + b THEN -I32Max - 1 ELSE a - b

\* the byte budget of a packet group, scaled down so that three entries do
\* not fit in one group
GroupBudget == 130

\* AWPacketGroup::new
NewGroup == [packets |-> << >>, bytes |-> 0]

\* AWPacketGroup::push: the packet is handed back when it does not fit
GroupPush(g, p) ==
    IF g.bytes + serialize_len(p) <= GroupBudget
    THEN [ok |-> TRUE,
          group |-> [packets |-> Append(g.packets, p), bytes |-> g.bytes + serialize_len(p)]]
    ELSE [ok |-> FALSE, group |-> g, packet |-> p]

\* Connection::send_group: the packets of the group, back to back
send_group(c, g) == [i \in 1..Len(g.packets) |-> [to |-> c, pkt |-> g.packets[i]]]

NoWorldName == << "N", "O", " ", "W", "O", "R", "L", "D" >>

\* the throttle that lets every request through less than 3 seconds early
ThrottledByNow(n, time_val) == n < time_val

\* user_list: the request is dropped when now - 3 < time_val
Throttled(n, time_val) == I32SaturatingSub(n, 3) < time_val

\* the UserList packet of one listed player; `c` is the loop's client, which
\* shadows the requesting client inside the loop
UserListEntry(c, inf) ==
    AddVars(NewPacket("UserList"),
            << Var("String", "UserListName", inf.entity.username),
               Var("Int", "UserListID", inf.entity.session_id),
               Var("Uint", "UserListCitizenID", UnwrapOr(inf.entity.citizen_id, U32Zero)),
               Var("Uint", "UserListPrivilegeID", UnwrapOr(inf.entity.privilege_id, U32Zero)) >>
            \o (IF has_admin_permissions(inf)
                THEN << Var("Uint", "UserListAddress", ip_to_num(ClientAddr(c))) >>
                ELSE << >>)
            \o << Var("Byte", "UserListState", 1),
                  Var("String", "UserListWorldName", NoWorldName) >>)

\* the UserListResult sent when a group was flushed: another one follows
UserListMore(n) ==
    AddVars(NewPacket("UserListResult"),
            << Var("Byte", "UserListMore", 1), Var("Int", "UserList3DayUnknown", n) >>)

\* a closing packet that echoes the request's time instead of the server's
UserListDoneEcho(n, time_val) ==
    AddVars(NewPacket("UserListResult"),
            << Var("Byte", "UserListMore", 0), Var("Int", "UserList3DayUnknown", time_val) >>)

\* the UserListResult that closes the list
UserListDone(n, time_val) ==
    AddVars(NewPacket("UserListResult"),
            << Var("Byte", "UserListMore", 0), Var("Int", "UserList3DayUnknown", n) >>)

\* user_list, the loop over client_manager.clients()
RECURSIVE UserListLoop(_, _, _, _, _)
UserListLoop(order, inf, n, group, out) ==
    IF order = << >> THEN [group |-> group, sent |-> out]
    ELSE LET c == Head(order) IN
         IF ~IsPlayer(inf[c]) THEN UserListLoop(Tail(order), inf, n, group, out)
         ELSE LET p == UserListEntry(c, inf[c])
                  r == GroupPush(group, p)
              IN  IF r.ok THEN UserListLoop(Tail(order), inf, n, r.group, out)
                  ELSE \* the full group goes to the loop's client
                       LET g1 == GroupPush(NewGroup, UserListMore(n)).group
                           g2 == GroupPush(g1, r.packet).group
                       IN  UserListLoop(Tail(order), inf, n, g2, out \o send_group(c, group))

\* user_list: the packets it sends, in order
user_list(caller, p, order, inf, t) ==
    LET n == NowAsI32(t)
        time_val == UnwrapOr(get_int(p, "UserList3DayUnknown"), 0)
    IN  IF Throttled(n, time_val) THEN << >>
        ELSE LET l == UserListLoop(order, inf, n, NewGroup, << >>)
                 r == GroupPush(l.group, UserListDone(n, time_val))
             IN  IF r.ok THEN l.sent \o send_group(caller, r.group)
                 ELSE l.sent \o send_group(caller, l.group)
                      \o send_group(caller, GroupPush(NewGroup, r.packet).group)

(***************************************************************************)
(* User list: three sessions, logged in or not, poll the list as the       *)
(* clock advances                                                          *)
(***************************************************************************)
\* the clock when the first request arrives, and the seconds that follow it
UlEpoch == 100
MaxElapsed == 2

TouristC == <<Quote, "c", Quote>>
LoginAsTouristB == << Some(1), Some(TouristB), None, None, None, Some(100) >>
LoginAsTouristC == << Some(1), Some(TouristC), None, None, None, Some(100) >>

InitUserList ==
    /\ IdleCodec /\ IdleObs
    /\ client_manager = ClientIds
    /\ universe = ClientIds
    /\ \E s1 \in {FreshInfo, SessionAfter(LoginAsTourist, 1), SessionAfter(LoginAsRoot, 1)},
          s2 \in {FreshInfo, SessionAfter(LoginAsTouristB, 2), SessionAfter(LoginAsBob, 2)},
          s3 \in {WorldServerInfo, SessionAfter(LoginAsTouristC, 3)} :
         info = [c \in ClientIds |-> IF c = "c1" THEN s1 ELSE IF c = "c2" THEN s2 ELSE s3]
    /\ dead = [c \in ClientIds |-> FALSE]
    /\ database = SampleDatabase
    /\ attributes = NoAttributes
    /\ next_session_id = 4
    /\ panicked = FALSE
    /\ now = UlEpoch
    /\ heartbeat = [c \in ClientIds |-> [last_time |-> UlEpoch]]

\* the UserList3DayUnknown values a request may carry at time t
UserListTimes(t) ==
    {None, Some(t - 4), Some(t - 3), Some(t - 2), Some(t)}

\* the orders in which client_manager.clients() is walked
UlOrders == { << "c1", "c2", "c3" >>, << "c3", "c2", "c1" >> }

UserListPacket(tv) ==
    AddVars(NewPacket("UserList"), OptVar("Int", "UserList3DayUnknown", tv))

UserList(c, p, order) ==
    /\ ~panicked
    /\ c \in client_manager
    /\ sent' = user_list(c, p, order, info, now)
    \* prev: the request before this one, when the same session sent it
    /\ last' = [op |-> "UserList", client |-> c, packet |-> p, time |-> now,
                prev |-> IF last.op = "UserList" /\ last.client = c
                         THEN [op |-> "UserList", client |-> last.client,
                               packet |-> last.packet, time |-> last.time, sent |-> sent]
                         ELSE NoOp]
    /\ UNCHANGED <<codecVars, serverVars, presenceVars, db_calls, issued, events, hb_times>>

\* a second passes
Second ==
    /\ now < UlEpoch + MaxElapsed
    /\ now' = now + 1
    /\ UNCHANGED <<codecVars, serverVars, heartbeat, obsVars>>

NextUserList ==
    \/ \E c \in ClientIds, tv \in UserListTimes(now), order \in UlOrders :
         UserList(c, UserListPacket(tv), order)
    \/ Second

SpecUserList == InitUserList /\ [][NextUserList]_vars

\* the packets of the last step that went to the requesting session
ToCaller == SelectSeq(sent, LAMBDA s : s.to = last.client)
LastTimeVal == UnwrapOr(get_int(last.packet, "UserList3DayUnknown"), 0)
IsUserListDone(pkt, t) ==
    /\ pkt.opcode = "UserListResult"
    /\ get_byte(pkt, "UserListMore") = Some(0)
    /\ get_int(pkt, "UserList3DayUnknown") = Some(t)

\* C12: a UserList request carrying UserList3DayUnknown = T (0 when the var
\* is absent) handled at time now gets no packet at all, to anyone, when
\* now - 3 < T, and otherwise a reply to the requester that ends with a
\* UserListResult.
C12_UserListThrottle ==
    last.op = "UserList" =>
        IF last.time - 3 < LastTimeVal
        THEN sent = << >>
        ELSE /\ sent # << >>
             /\ sent[Len(sent)].to = last.client
             /\ sent[Len(sent)].pkt.opcode = "UserListResult"

C12_Witness ==
    /\ last.op = "UserList"
    /\ LastTimeVal = last.time - 3
    /\ Len(sent) >= 3
    /\ sent[Len(sent)].pkt.opcode = "UserListResult"
    /\ last.prev.op = "UserList" /\ last.prev.sent = << >>
    /\ get_int(last.prev.packet, "UserList3DayUnknown") = Some(last.prev.time - 2)

PrevTimeVal == UnwrapOr(get_int(last.prev.packet, "UserList3DayUnknown"), 0)
Players == { c \in client_manager : IsPlayer(info[c]) }
\* two requests of one session, handled one second apart
TwoRequests ==
    /\ last.op = "UserList" /\ last.prev.op = "UserList"
    /\ last.time = last.prev.time + 1
\* no group was flushed while the list was built
InOneGroup(s) == \A i \in 1..Len(s) : get_byte(s[i].pkt, "UserListMore") # Some(1)

C14_AddressOnlyForAdminCaller ==
    last.op = "UserList" =>
        \A i \in 1..Len(sent) :
          sent[i].pkt.opcode = "UserList" =>
            (HasVar(sent[i].pkt, "UserListAddress")
               <=> has_admin_permissions(info[last.client]))


SentEntries == SelectSeq(sent, LAMBDA s : s.pkt.opcode = "UserList")

\* C25: for a UserList request that is not throttled, every packet of the
\* reply goes to the requesting session and to no other: one UserList entry
\* per registered session that holds a Player record, also when the entries
\* overflow a group and the group is flushed on the way, and last one
\* UserListResult with UserListMore = 0 and UserList3DayUnknown = now.
C25_ReplyToRequesterOnly ==
    (last.op = "UserList" /\ ~(last.time - 3 < LastTimeVal)) =>
        /\ \A i \in 1..Len(sent) : sent[i].to = last.client
        /\ Len(SentEntries) = Cardinality(Players)
        /\ { get_int(SentEntries[i].pkt, "UserListID") : i \in 1..Len(SentEntries) }
             = { Some(info[c].entity.session_id) : c \in Players }
        /\ sent # << >>
        /\ IsUserListDone(sent[Len(sent)].pkt, last.time)
        /\ Cardinality({ i \in 1..Len(sent) :
                           get_byte(sent[i].pkt, "UserListMore") = Some(0) }) = 1


(***************************************************************************)
(* The heartbeat tick, session by session                                  *)
(***************************************************************************)
\* the positions of sent at which a packet for c stands
SentTo(c, out) == { i \in 1..Len(out) : out[i].to = c }

\* one tick: a session that is registered when the heartbeats run is sent one
\* empty Heartbeat and has its last_time set to the time of the tick exactly
\* when that time is 30 or more past its last_time
HeartbeatTickStep ==
    (last'.op = "Tick" /\ ~panicked') =>
      \A c \in universe' :
        IF now' - heartbeat[c].last_time >= HeartbeatInterval
        THEN /\ Cardinality(SentTo(c, sent')) = 1
             /\ \A i \in SentTo(c, sent') : sent'[i].pkt = NewPacket("Heartbeat")
             /\ heartbeat'[c].last_time = now'
        ELSE /\ SentTo(c, sent') = {}
             /\ heartbeat'[c].last_time = heartbeat[c].last_time

HeartbeatsApart ==
    \A c \in client_manager :
      \A t1, t2 \in hb_times[c].sent : t1 < t2 => t2 - t1 >= HeartbeatInterval

\* C26: a heartbeat tick at time now sends each registered session one empty
\* Heartbeat and sets its last_time to now if and only if now - last_time >= 30,
\* and otherwise sends it nothing and leaves last_time alone; so two Heartbeats
\* to one session are at least 30 seconds apart.
C26_HeartbeatIffDue ==
    [][HeartbeatTickStep]_vars /\ [](HeartbeatsApart)

\* a session has been sent three Heartbeats, the last one in the tick just run,
\* while another session was sent nothing in that tick
C26_Witness ==
    /\ last.op = "Tick"
    /\ \E c, d \in client_manager :
         /\ Cardinality(hb_times[c].sent) = 3
         /\ SentTo(c, sent) # {}
         /\ heartbeat[c].last_time = now
         /\ SentTo(d, sent) = {}
         /\ heartbeat[d].last_time < now


\* the handler asked the database to write a citizen record
RecordWritten == \E i \in 1..Len(db_calls) : db_calls[i].call = "citizen_change"

\* C27: every CitizenChange handled for a session is answered with exactly one
\* CitizenChangeResult carrying a ReasonCode, sent to that session, also when
\* the packet lacks a required citizen var; and the ReasonCode is Success only
\* when the citizen record was written to the database.
C27_OneResultPerChange ==
    last.op = "CitizenChange" =>
        /\ Len(sent) = 1
        /\ sent[1].to = last.client
        /\ sent[1].pkt.opcode = "CitizenChangeResult"
        /\ IsSome(get_int(sent[1].pkt, "ReasonCode"))
        /\ (ReplyReason = Some("Success") => RecordWritten)


(***************************************************************************)
(* Universe attributes (user_handler.rs: attribute_change)                 *)
(***************************************************************************)
\* attributes::set_attribute: the value is stored under an attribute's id; a
\* var id that names no attribute is refused
set_attribute(id, val, attrs) ==
    IF id \in AttributeIds
    THEN [ok |-> TRUE, attributes |-> [attrs EXCEPT ![id] = val]]
    ELSE [ok |-> FALSE, attributes |-> attrs]

\* the packet attributes::send_attributes sends: every attribute as a String var
AttributesPacket(attrs) ==
    AddVars(NewPacket("Attributes"),
            << Var("String", "AttributeAllowTourists", attrs["AttributeAllowTourists"]),
               Var("String", "AttributeWorldStart", attrs["AttributeWorldStart"]) >>)

send_attributes(c, attrs) == << [to |-> c, pkt |-> AttributesPacket(attrs)] >>

\* lines 299-304: the String vars of the packet are set one after the other,
\* the result of each set_attribute dropped by .ok()
RECURSIVE SetAttributes(_, _)
SetAttributes(vs, st) ==
    IF vs = << >> THEN st
    ELSE LET var == Head(vs) IN
         IF var.kind = "String"
         THEN SetAttributes(Tail(vs),
                [attributes |-> set_attribute(var.id, var.val, st.attributes).attributes,
                 db_calls |-> Append(st.db_calls,
                                     DbCall("set_attribute", <<var.id, var.val>>))])
         ELSE SetAttributes(Tail(vs), st)

\* lines 306-308: the attributes go to every client of the client manager
RECURSIVE SendAttributesToAll(_, _)
SendAttributesToAll(order, attrs) ==
    IF order = << >> THEN << >>
    ELSE send_attributes(Head(order), attrs) \o SendAttributesToAll(Tail(order), attrs)

\* an attribute_change that does not ask who is calling
attribute_change_by_anyone(inf, p, attrs, order) ==
    LET st == SetAttributes(p.vars, [attributes |-> attrs, db_calls |-> << >>])
    IN  [attributes |-> st.attributes, db_calls |-> st.db_calls,
         sent |-> SendAttributesToAll(order, st.attributes)]

\* attribute_change; order is the order of client_manager.clients()
attribute_change(inf, p, attrs, order) ==
    IF ~has_admin_permissions(inf)
    THEN [attributes |-> attrs, db_calls |-> << >>, sent |-> << >>]
    ELSE LET st == SetAttributes(p.vars, [attributes |-> attrs, db_calls |-> << >>])
         IN  [attributes |-> st.attributes, db_calls |-> st.db_calls,
              sent |-> SendAttributesToAll(order, st.attributes)]

(***************************************************************************)
(* Attributes: three sessions, administrators or not, send AttributeChange *)
(***************************************************************************)
AttributeSampleVars ==
    { Var("String", "AttributeAllowTourists", <<"Y">>),
      Var("String", "AttributeAllowTourists", <<"N">>),
      Var("String", "AttributeWorldStart", <<"w">>),
      Var("String", "CitizenName", <<"b">>),
      Var("Int", "AttributeWorldStart", 7) }

\* every packet of at most two of these vars, and some of three
AttributePackets ==
    { AddVars(NewPacket("AttributeChange"), vs) :
        vs \in SeqsUpTo(AttributeSampleVars, 2)
               \cup { << Var("String", "AttributeAllowTourists", a),
                         Var("Int", "AttributeWorldStart", 7),
                         Var("String", "AttributeAllowTourists", b) >> :
                        a, b \in {<<"Y">>, <<"N">>} } }

InitAttributes ==
    /\ IdleCodec /\ IdlePresence /\ IdleObs
    /\ client_manager = ClientIds
    /\ universe = ClientIds
    /\ \E s1 \in {FreshInfo, SessionAfter(LoginAsBob, 1), SessionAfter(LoginAsRoot, 1)},
          s2 \in {WorldServerInfo, SessionAfter(LoginAsBobPrivileged, 2)} :
         info = [c \in ClientIds |->
                   IF c = "c1" THEN s1
                   ELSE IF c = "c2" THEN s2
                   ELSE SessionAfter(LoginAsTourist, 3)]
    /\ dead = [c \in ClientIds |-> FALSE]
    /\ database = SampleDatabase
    /\ attributes = NoAttributes
    /\ next_session_id = 4
    /\ panicked = FALSE

AttributeChange(c, p, order) ==
    /\ ~panicked
    /\ c \in client_manager
    /\ LET r == attribute_change(info[c], p, attributes, order) IN
       /\ attributes' = r.attributes
       /\ db_calls' = r.db_calls
       /\ sent' = r.sent
       /\ last' = [op |-> "AttributeChange", client |-> c, packet |-> p,
                   pre |-> attributes]
    /\ UNCHANGED <<codecVars, presenceVars, client_manager, universe, info, dead, database,
                   next_session_id, panicked, issued, events, hb_times>>

NextAttributes ==
    \E c \in {"c1", "c2"}, p \in AttributePackets, order \in UlOrders :
        AttributeChange(c, p, order)

SpecAttributes == InitAttributes /\ [][NextAttributes]_vars

\* the String vars of a packet, in packet order
StringVars(p) == SelectSeq(p.vars, LAMBDA v : v.kind = "String")

\* the positions of the String vars of p that carry attribute a
SettersOf(p, a) == { i \in 1..Len(p.vars) : p.vars[i].kind = "String" /\ p.vars[i].id = a }

Max(S) == CHOOSE x \in S : \A y \in S : y <= x

\* C29: an AttributeChange from a caller without admin permissions changes no
\* stored attribute and sends nothing to anyone; one from an administrator
\* sets each String var of the packet in packet order (for an attribute set
\* twice the later value stays) and then, in the same run, sends the
\* attributes as they now are to every registered session, the caller included.
C29_AttributeChange ==
    last.op = "AttributeChange" =>
      IF ~has_admin_permissions(info[last.client])
      THEN /\ attributes = last.pre
           /\ sent = << >>
           /\ db_calls = << >>
      ELSE /\ db_calls = [i \in 1..Len(StringVars(last.packet)) |->
                            DbCall("set_attribute", << StringVars(last.packet)[i].id,
                                                       StringVars(last.packet)[i].val >>)]
           /\ \A a \in AttributeIds :
                attributes[a] = IF SettersOf(last.packet, a) = {} THEN last.pre[a]
                                ELSE last.packet.vars[Max(SettersOf(last.packet, a))].val
           /\ Len(sent) = Cardinality(client_manager)
           /\ \A c \in client_manager :
                \E i \in 1..Len(sent) : sent[i] = [to |-> c, pkt |-> AttributesPacket(attributes)]

\* an administrator changed one attribute twice in a packet that also carries
\* a var that is not a String, and three sessions were told
C29_Witness ==
    /\ last.op = "AttributeChange"
    /\ has_admin_permissions(info[last.client])
    /\ Cardinality(SettersOf(last.packet, "AttributeAllowTourists")) = 2
    /\ \E i \in 1..Len(last.packet.vars) : last.packet.vars[i].kind = "Int"
    /\ attributes # last.pre
    /\ Len(sent) = 3
    /\ \E i \in 1..Len(sent) : sent[i].to = last.client


(***************************************************************************)
(* The main loop: the purge sweep, then the heartbeats                     *)
(***************************************************************************)
\* the sessions the sweep of the last iteration found dead
FoundDead == { c \in last.pre_clients : last.pre_dead[c] }

\* C30: the purge sweep of a main-loop iteration removes exactly the sessions
\* that are dead: a session that is not dead stays registered with its client
\* kind and entity as they were, and the entity store and the client manager
\* end with the same client ids; so the heartbeats that follow find a client
\* for every ClientID and none goes to a session the sweep found dead.
C30_PurgeThenHeartbeat ==
    /\ universe = client_manager
    /\ ~panicked
    /\ last.op = "Tick" =>
         /\ client_manager = last.pre_clients \ FoundDead
         /\ \A c \in client_manager : info[c] = last.pre_info[c] /\ ~dead[c]
         /\ \A i \in 1..Len(sent) : sent[i].to \in client_manager

\* in one iteration a logged-in citizen whose Heartbeat was due was found dead
\* and removed, and a world server that stayed was sent its Heartbeat
C30_Witness ==
    /\ last.op = "Tick"
    /\ \E c \in FoundDead, d \in client_manager :
         /\ IsPlayer(last.pre_info[c])
         /\ now - last.pre_heartbeat[c].last_time >= HeartbeatInterval
         /\ c \notin universe
         /\ info[d] = HostingInfo
         /\ SentTo(d, sent) # {}

====
